---- MODULE Spec2Model ----
(***************************************************************************)
(* Metering and fee pipeline of the ElizaOS overlay sandbox worker:        *)
(* PricingService (override precedence, bulk-table cache, fee arithmetic), *)
(* BillingService.calculateSandboxFee, ProxyService fee headers and        *)
(* AuthService.validateApiKey.                                             *)
(*                                                                         *)
(* Number representation.  JavaScript numbers that carry money are kept    *)
(* as exact decimals: a value is an integer count of micro-dollars         *)
(* (1e-6 USD) or NaN.  Rates of the pricing tables are integer counts of  *)
(* 1e-5 USD per 1000 tokens.  Unrounded intermediates of the fee         *)
(* arithmetic are integer counts of 1e-10 USD ("fine" units).  Text is a   *)
(* tuple of one-character strings, so that startsWith, slice, toString and *)
(* parseFloat are computed rather than assumed.                            *)
(***************************************************************************)
EXTENDS Integers, Sequences, FiniteSets, TLC

VARIABLES
    now,                \* Date.now(), in intervals of 2.5 minutes
    SANDBOX_FEE_RATE,   \* env.SANDBOX_FEE_RATE: text, or UndefinedText
    pricing_overrides,  \* D1 table pricing_overrides: model -> ModelPricing
    PRICING_V1,         \* KV value under key PRICING_V1
    pricingCache,       \* PricingService.pricingCache
    cacheExpiry,        \* PricingService.cacheExpiry
    calls,              \* the calculateSandboxFee calls in flight on the instance
    lastLoad,           \* history: the latest `now` of a successful bulk load
    feeCall,            \* one fee computation from resolved pricing to headers
    cloud_api_keys,     \* D1 table cloud_api_keys: set of rows [id, key]
    authCall,           \* one validateApiKey call
    chat,               \* the /agent/chat request in the worker and its response
    usage_events,       \* D1 table usage_events: set of rows
    recordings          \* the usage recording operations started so far

vars == <<now, SANDBOX_FEE_RATE, pricing_overrides, PRICING_V1, pricingCache,
          cacheExpiry, calls, lastLoad, feeCall, cloud_api_keys, authCall,
          chat, usage_events, recordings>>

pricingVars == <<now, pricing_overrides, PRICING_V1, pricingCache, cacheExpiry,
                 calls, lastLoad>>
authVars == <<cloud_api_keys, authCall>>
pipelineVars == <<chat, usage_events, recordings>>

-----------------------------------------------------------------------------
(* JavaScript values *)

\* A number is [nan, v]: v counts units that the context names.
Num(n) == [nan |-> FALSE, v |-> n]
NaN == [nan |-> TRUE, v |-> 0]

\* null and undefined where an object is expected.
Null == [type |-> "null"]
\* undefined and null where text is expected: no text (a tuple of one-character
\* strings) equals either.
UndefinedText == <<"undefined">>
NullText == <<"null">>

Mul(a, b) == IF a.nan \/ b.nan THEN NaN ELSE Num(a.v * b.v)
Add(a, b) == IF a.nan \/ b.nan THEN NaN ELSE Num(a.v + b.v)

\* Bounds of the model.
MaxTokens == 15         \* token counts 0..MaxTokens are enumerated densely
MaxTime == 3            \* the clock runs through 0..MaxTime
MaxBillingBase == 12    \* BillingService base costs 0..MaxBillingBase (1e-4 USD)

-----------------------------------------------------------------------------
(* Text: toString and parseFloat *)

Digit(d) == <<"0", "1", "2", "3", "4", "5", "6", "7", "8", "9">>[d + 1]

DigitValue(ch) ==
    CASE ch = "0" -> 0 [] ch = "1" -> 1 [] ch = "2" -> 2 [] ch = "3" -> 3
      [] ch = "4" -> 4 [] ch = "5" -> 5 [] ch = "6" -> 6 [] ch = "7" -> 7
      [] ch = "8" -> 8 [] ch = "9" -> 9 [] OTHER -> -1

IsDigit(ch) == DigitValue(ch) >= 0

RECURSIVE IntDigits(_)
IntDigits(n) == IF n < 10 THEN <<Digit(n)>> ELSE Append(IntDigits(n \div 10), Digit(n % 10))

RECURSIVE StripTrailingZeros(_)
StripTrailingZeros(s) ==
    IF s # <<>> /\ s[Len(s)] = "0" THEN StripTrailingZeros(SubSeq(s, 1, Len(s) - 1)) ELSE s

\* The six fraction digits of a count of micro units.
FractionDigits(f) ==
    <<Digit(f \div 100000), Digit((f \div 10000) % 10), Digit((f \div 1000) % 10),
      Digit((f \div 100) % 10), Digit((f \div 10) % 10), Digit(f % 10)>>

\* Number.prototype.toString of a non-negative number of micro units (or NaN):
\* the shortest decimal text, no trailing zeros, no point for an integer.
toString(x) ==
    IF x.nan THEN <<"N", "a", "N">>
    ELSE LET frac == StripTrailingZeros(FractionDigits(x.v % 1000000))
         IN  IntDigits(x.v \div 1000000) \o (IF frac = <<>> THEN <<>> ELSE <<".">> \o frac)

RECURSIVE DigitPrefixLen(_)
DigitPrefixLen(s) == IF s # <<>> /\ IsDigit(s[1]) THEN 1 + DigitPrefixLen(Tail(s)) ELSE 0

RECURSIVE DigitsValue(_)
DigitsValue(s) ==
    IF s = <<>> THEN 0
    ELSE 10 * DigitsValue(SubSeq(s, 1, Len(s) - 1)) + DigitValue(s[Len(s)])

\* The value, in micro units, of up to six fraction digits.
RECURSIVE FractionValue(_, _)
FractionValue(s, weight) ==
    IF s = <<>> \/ weight = 0 THEN 0
    ELSE DigitValue(s[1]) * weight + FractionValue(Tail(s), weight \div 10)

\* parseFloat: the longest numeric prefix (digits, optional point, digits), in
\* micro units; NaN when the text does not start with a number, and for
\* undefined (which parseFloat reads as the text "undefined").
parseFloat(s) ==
    IF s = UndefinedText \/ s = NullText THEN NaN
    ELSE LET n == DigitPrefixLen(s)
             rest == SubSeq(s, n + 1, Len(s))
             m == IF rest # <<>> /\ rest[1] = "." THEN DigitPrefixLen(Tail(rest)) ELSE 0
         IN  IF n = 0 /\ m = 0 THEN NaN
             ELSE Num(DigitsValue(SubSeq(s, 1, n)) * 1000000
                      + (IF m = 0 THEN 0 ELSE FractionValue(SubSeq(rest, 2, m + 1), 100000)))

-----------------------------------------------------------------------------
(* Pricing data *)

ModelPricing(i, o) == [input_per_1k_usd |-> i, output_per_1k_usd |-> o]

\* What a property read finds on Object.prototype (constructor, toString, ...):
\* a truthy object that has no rate fields.
InheritedMember == [inherited |-> TRUE]
ObjectPrototypeKeys == {"constructor"}

\* obj[key] || null on a plain object: an own entry, else a member inherited
\* from Object.prototype, else undefined, which || turns into null.
Lookup(table, key) ==
    IF key \in DOMAIN table THEN table[key]
    ELSE IF key \in ObjectPrototypeKeys THEN InheritedMember
    ELSE Null

\* pricing.<field> as a number: a missing field reads undefined, which the
\* arithmetic turns into NaN.
Field(pricing, f) == IF f \in DOMAIN pricing THEN Num(pricing[f]) ELSE NaN

EmptyTable == <<>>

-----------------------------------------------------------------------------
(* PricingService: the fee arithmetic *)

ZeroFee == [base_cost_usd |-> Num(0), platform_fee_usd |-> Num(0), total_cost_usd |-> Num(0)]

\* A round4 that cuts the digits after the fourth decimal instead of rounding.
round4_truncating(value) ==
    IF value.nan THEN {NaN} ELSE {Num(100 * (value.v \div 1000000))}

\* round4 of a value given in fine units (1e-10 USD), in micro-dollars:
\* Math.round(value * 10000) / 10000, Math.round rounding a half upwards.
\* When the decimal value lies exactly on a half, the double product
\* value * 10000 falls on either side of it, so both neighbours are results.
round4(value) ==
    IF value.nan THEN {NaN}
    ELSE LET twice == 2 * value.v + 1000000
             up == twice \div 2000000
         IN  IF twice % 2000000 = 0 THEN {Num(100 * (up - 1)), Num(100 * up)}
             ELSE {Num(100 * up)}

\* A fee rate parsed from text (micro units) as a number of hundredths.
Hundredths(rate) == IF rate.nan THEN NaN ELSE Num(rate.v \div 10000)

\* baseCost = promptCost + completionCost, counting 1e-8 USD (tokens / 1000
\* times a rate of 1e-5 USD).
BaseCost(pricing, promptTokens, completionTokens) ==
    LET promptCost == Mul(Num(promptTokens), Field(pricing, "input_per_1k_usd"))
        completionCost == Mul(Num(completionTokens), Field(pricing, "output_per_1k_usd"))
    IN  Add(promptCost, completionCost)

\* platformFee = baseCost * feeRate, in fine units.
PlatformFee(baseCost, feeRate) == Mul(baseCost, Hundredths(feeRate))

\* A total that leaves the platform fee out.
TotalCost_withoutFee(baseCost, platformFee) == Mul(baseCost, Num(100))

\* totalCost = baseCost + platformFee, in fine units.
TotalCost(baseCost, platformFee) == Add(Mul(baseCost, Num(100)), platformFee)

\* calculateSandboxFee after getModelPricing has returned `pricing`: the
\* results the call can return.
FeeFromPricing(pricing, promptTokens, completionTokens, feeRateText) ==
    IF pricing = Null THEN {ZeroFee}
    ELSE LET baseCost == BaseCost(pricing, promptTokens, completionTokens)
             feeRate == parseFloat(feeRateText)
             platformFee == PlatformFee(baseCost, feeRate)
             totalCost == TotalCost(baseCost, platformFee)
         IN  { [base_cost_usd |-> b, platform_fee_usd |-> f, total_cost_usd |-> t] :
                 b \in round4(Mul(baseCost, Num(100))),
                 f \in round4(platformFee),
                 t \in round4(totalCost) }

-----------------------------------------------------------------------------
(* BillingService.calculateSandboxFee *)

DefaultFeeRateText == <<"0", ".", "2", "0">>

\* text || '0.20': undefined and the empty text are falsy.
OrDefault(text) == IF text = UndefinedText \/ text = <<>> THEN DefaultFeeRateText ELSE text

\* No rounding: base in micro-dollars, feeRate in micro units; a base cost that
\* is a multiple of 1e-4 USD times a rate of two decimals is a whole number of
\* micro-dollars.
BillingFee(baseCostUsd, feeRateText) ==
    LET feeRate == parseFloat(OrDefault(feeRateText))
        product == Mul(baseCostUsd, feeRate)
        platformFee == IF product.nan THEN NaN ELSE Num(product.v \div 1000000)
        totalCost == Add(baseCostUsd, platformFee)
    IN  [base_cost_usd |-> baseCostUsd, platform_fee_usd |-> platformFee,
         total_cost_usd |-> totalCost]

-----------------------------------------------------------------------------
(* ProxyService.createResponseWithHeaders and the test suite's validator *)

BaseCostHeader == "X-Eliza-Sandbox-Base-Cost-USD"
FeeHeader == "X-Eliza-Sandbox-Fee-USD"
TotalHeader == "X-Eliza-Sandbox-Total-USD"

NoHeaders == [h \in {BaseCostHeader, FeeHeader, TotalHeader} |-> NullText]

FeeHeaders(feeCalculation) ==
    [h \in {BaseCostHeader, FeeHeader, TotalHeader} |->
        IF h = BaseCostHeader THEN toString(feeCalculation.base_cost_usd)
        ELSE IF h = FeeHeader THEN toString(feeCalculation.platform_fee_usd)
        ELSE toString(feeCalculation.total_cost_usd)]

EXPECTED_SANDBOX_FEE_RATE == 20     \* hundredths

Abs(n) == IF n < 0 THEN -n ELSE n

\* validateSandboxFeeCalculation on parsed header values (micro-dollars).  A
\* comparison with NaN is false; platformFee / baseCost is NaN or Infinity for a
\* zero base cost, so rateCorrect is false there.
validateSandboxFeeCalculation(baseCost, platformFee, totalCost) ==
    IF baseCost.nan \/ platformFee.nan \/ totalCost.nan
    THEN [feeCorrect |-> FALSE, totalCorrect |-> FALSE, rateCorrect |-> FALSE]
    ELSE LET expectedFee == (baseCost.v * EXPECTED_SANDBOX_FEE_RATE) \div 100
             expectedTotal == baseCost.v + expectedFee
         IN  [feeCorrect |-> Abs(platformFee.v - expectedFee) < 100,
              totalCorrect |-> Abs(totalCost.v - expectedTotal) < 100,
              rateCorrect |-> /\ baseCost.v # 0
                              /\ Abs(100 * platformFee.v
                                     - EXPECTED_SANDBOX_FEE_RATE * baseCost.v)
                                   < 5 * baseCost.v]

-----------------------------------------------------------------------------
(* The fee computation on its own: inputs drawn at the start, then          *)
(* PricingService.calculateSandboxFee on resolved pricing followed by        *)
(* createResponseWithHeaders, or BillingService.calculateSandboxFee.         *)

Rates == {0, 1000, 3000}            \* 0, 0.01 and 0.03 USD per 1000 tokens
TokenCounts == (0..MaxTokens) \cup {100, 200}
FeeRateConfigs == {UndefinedText, <<"0", ".", "2", "0">>, <<"0", ".", "5">>}
ResolvedPricings ==
    {ModelPricing(i, o) : i \in Rates, o \in Rates} \cup {Null, InheritedMember}
BillingBaseCosts == {Num(100 * k) : k \in 0..MaxBillingBase}

IdleFeeCall ==
    [pc |-> "idle", pricing |-> Null, promptTokens |-> 0, completionTokens |-> 0,
     feeCalculation |-> ZeroFee, headers |-> NoHeaders]

FeeInit ==
    /\ SANDBOX_FEE_RATE \in FeeRateConfigs
    /\ \E pr \in ResolvedPricings, p \in TokenCounts, c \in TokenCounts :
          feeCall = [IdleFeeCall EXCEPT !.pc = "start", !.pricing = pr,
                                        !.promptTokens = p, !.completionTokens = c]

PricingCalculate ==
    /\ feeCall.pc = "start"
    /\ \E fc \in FeeFromPricing(feeCall.pricing, feeCall.promptTokens,
                                feeCall.completionTokens, SANDBOX_FEE_RATE) :
          feeCall' = [feeCall EXCEPT !.pc = "priced", !.feeCalculation = fc]
    /\ UNCHANGED SANDBOX_FEE_RATE
    /\ UNCHANGED <<pricingVars, authVars, pipelineVars>>

createResponseWithHeaders ==
    /\ feeCall.pc = "priced"
    /\ feeCall' = [feeCall EXCEPT !.pc = "responded",
                                  !.headers = FeeHeaders(feeCall.feeCalculation)]
    /\ UNCHANGED SANDBOX_FEE_RATE
    /\ UNCHANGED <<pricingVars, authVars, pipelineVars>>

BillingCalculate ==
    /\ feeCall.pc = "start"
    /\ \E b \in BillingBaseCosts :
          feeCall' = [feeCall EXCEPT !.pc = "billed",
                                     !.feeCalculation = BillingFee(b, SANDBOX_FEE_RATE)]
    /\ UNCHANGED SANDBOX_FEE_RATE
    /\ UNCHANGED <<pricingVars, authVars, pipelineVars>>

-----------------------------------------------------------------------------
(* PricingService on one instance: calculateSandboxFee -> getModelPricing   *)
(* -> getDefaultPricing, one action per stretch of code between two awaits. *)
(* The clock counts intervals of 2.5 minutes.                               *)

CACHE_TTL_MS == 2       \* 5 * 60 * 1000 ms, in clock intervals

CallIds == {"a", "b"}   \* the calls that can be in flight together
Models == {"gpt-4o-mini", "unlisted-model", "constructor"}
CallPromptTokens == {100}
CallCompletionTokens == {200}
MainFeeRateConfigs == {UndefinedText, <<"0", ".", "2", "0">>}

OverrideTables ==
    {EmptyTable, [m \in {"gpt-4o-mini"} |-> ModelPricing(1000, 3000)]}
BulkTables ==
    {[m \in {"gpt-4o-mini"} |-> ModelPricing(15, 60)],
     [m \in {"gpt-4o-mini", "gpt-4o"} |-> ModelPricing(500, 1500)]}

\* What env.PRICING.get('PRICING_V1') can deliver: null (no such key), text
\* that is not JSON, or the JSON text of a pricing table.
KvNull == [kind |-> "null"]
KvUnparsable == [kind |-> "unparsable"]
KvJson(table) == [kind |-> "json", value |-> table]
KvValues == {KvNull, KvUnparsable} \cup {KvJson(t) : t \in BulkTables}

\* SELECT ... FROM pricing_overrides WHERE model = ? LIMIT 1, then .first():
\* the row of that model (model is the primary key), or null.
SelectOverride(table, model) == IF model \in DOMAIN table THEN table[model] ELSE Null

\* A test of the override row that never finds one.
OverrideFound_never(override) == FALSE

\* if (override)
OverrideFound(override) == override # Null

\* this.pricingCache && now < this.cacheExpiry
CacheValid(cache, expiry, t) == cache # Null /\ t < expiry

\* !pricingJson
KvFalsy(pricingJson) == pricingJson = KvNull

\* A failed load that falls back on the table the cache holds.
FailedLoadTable_stale(cache) == IF cache = Null THEN EmptyTable ELSE cache

\* What getDefaultPricing returns when it loads nothing (no value, or the
\* catch block): {}, whatever the cache holds.
FailedLoadTable(cache) == EmptyTable

\* A cache write that adds the loaded entries to the ones already cached.
ReplaceCache_merging(cache, table) ==
    IF cache = Null THEN table
    ELSE [m \in DOMAIN cache \cup DOMAIN table |->
             IF m \in DOMAIN cache THEN cache[m] ELSE table[m]]

\* this.pricingCache = JSON.parse(pricingJson): the parsed table takes the
\* place of whatever was cached.
ReplaceCache(cache, table) == table

\* A failed load that is remembered for a time to live.
ExpiryAfterFailure_cached(expiry, entryNow) == entryNow + CACHE_TTL_MS

\* cacheExpiry after a failed load: the return {} paths write nothing.
ExpiryAfterFailure(expiry, entryNow) == expiry

\* this.cacheExpiry = now + this.CACHE_TTL_MS, with the now read on entry.
NewExpiry(entryNow, currentNow) == entryNow + CACHE_TTL_MS

IdleCall ==
    [pc |-> "idle", model |-> "", promptTokens |-> 0, completionTokens |-> 0,
     now |-> -1,            \* getDefaultPricing's now; -1 before it is entered
     path |-> "none",       \* history: threw, override, hit or miss
     bulk |-> EmptyTable,   \* what getDefaultPricing returned
     pricing |-> Null,      \* what getModelPricing returned
     result |-> ZeroFee]

\* lastLoad: the largest `now` (read on entry) among the successful loads
\* completed so far; -1 when there is none.
NoLoad == -1

PricingInit ==
    /\ now = 0
    /\ pricing_overrides \in OverrideTables
    /\ PRICING_V1 \in KvValues
    /\ pricingCache = Null
    /\ cacheExpiry = 0
    /\ calls = [i \in CallIds |-> IdleCall]
    /\ lastLoad = NoLoad

\* calculateSandboxFee(model, promptTokens, completionTokens) up to the await
\* of the override query.
Call(i) ==
    /\ calls[i].pc = "idle"
    /\ \E m \in Models, p \in CallPromptTokens, c \in CallCompletionTokens :
          calls' = [calls EXCEPT ![i] = [IdleCall EXCEPT !.pc = "override_query",
                        !.model = m, !.promptTokens = p, !.completionTokens = c]]
    /\ UNCHANGED <<now, SANDBOX_FEE_RATE, pricing_overrides, PRICING_V1,
                   pricingCache, cacheExpiry, lastLoad>>
    /\ UNCHANGED <<feeCall, cloud_api_keys, authCall, pipelineVars>>

\* The rest of calculateSandboxFee once getModelPricing has `pricing`;
\* getDefaultPricing's now is gone with its frame.
Finish(call, pricing, fc) ==
    [call EXCEPT !.pc = "done", !.now = -1, !.pricing = pricing, !.result = fc]

\* The override query throws: getModelPricing's catch returns null.
OverrideQueryThrows(i) ==
    /\ calls[i].pc = "override_query"
    /\ \E fc \in FeeFromPricing(Null, calls[i].promptTokens,
                                calls[i].completionTokens, SANDBOX_FEE_RATE) :
          calls' = [calls EXCEPT ![i] =
                        Finish([calls[i] EXCEPT !.path = "threw"], Null, fc)]
    /\ UNCHANGED <<now, SANDBOX_FEE_RATE, pricing_overrides, PRICING_V1,
                   pricingCache, cacheExpiry, lastLoad>>
    /\ UNCHANGED <<feeCall, cloud_api_keys, authCall, pipelineVars>>

\* The override query answers; with no row, getDefaultPricing runs up to a
\* cache hit or to the await of PRICING.get.
OverrideQueryReturns(i) ==
    /\ calls[i].pc = "override_query"
    /\ LET call == calls[i]
           override == SelectOverride(pricing_overrides, call.model)
           entered == [call EXCEPT !.now = now]
       IN  IF OverrideFound(override)
           THEN \E fc \in FeeFromPricing(override, call.promptTokens,
                                         call.completionTokens, SANDBOX_FEE_RATE) :
                   calls' = [calls EXCEPT ![i] =
                       Finish([call EXCEPT !.path = "override"], override, fc)]
           ELSE IF CacheValid(pricingCache, cacheExpiry, now)
           THEN LET pricing == Lookup(pricingCache, call.model)
                IN  \E fc \in FeeFromPricing(pricing, call.promptTokens,
                                             call.completionTokens, SANDBOX_FEE_RATE) :
                       calls' = [calls EXCEPT ![i] =
                           Finish([entered EXCEPT !.path = "hit", !.bulk = pricingCache],
                                  pricing, fc)]
           ELSE calls' = [calls EXCEPT ![i] =
                           [entered EXCEPT !.pc = "kv_get", !.path = "miss"]]
    /\ UNCHANGED <<now, SANDBOX_FEE_RATE, pricing_overrides, PRICING_V1,
                   pricingCache, cacheExpiry, lastLoad>>
    /\ UNCHANGED <<feeCall, cloud_api_keys, authCall, pipelineVars>>

\* PRICING.get throws, or delivers nothing, or text JSON.parse rejects:
\* getDefaultPricing returns {} and writes nothing.
KvGetFails(i) ==
    /\ calls[i].pc = "kv_get"
    /\ \E threw \in BOOLEAN :
          threw \/ KvFalsy(PRICING_V1) \/ PRICING_V1 = KvUnparsable
    /\ LET bulk == FailedLoadTable(pricingCache)
           pricing == Lookup(bulk, calls[i].model)
       IN  \E fc \in FeeFromPricing(pricing, calls[i].promptTokens,
                                    calls[i].completionTokens, SANDBOX_FEE_RATE) :
              calls' = [calls EXCEPT ![i] =
                            Finish([calls[i] EXCEPT !.bulk = bulk], pricing, fc)]
    /\ cacheExpiry' = ExpiryAfterFailure(cacheExpiry, calls[i].now)
    /\ UNCHANGED <<now, SANDBOX_FEE_RATE, pricing_overrides, PRICING_V1,
                   pricingCache, lastLoad>>
    /\ UNCHANGED <<feeCall, cloud_api_keys, authCall, pipelineVars>>

\* PRICING.get delivers JSON: the parsed table replaces the cache and the
\* expiry is set from the `now` read on entry.
KvGetLoads(i) ==
    /\ calls[i].pc = "kv_get"
    /\ PRICING_V1.kind = "json"
    /\ LET table == PRICING_V1.value
           pricing == Lookup(table, calls[i].model)
       IN  /\ pricingCache' = ReplaceCache(pricingCache, table)
           /\ cacheExpiry' = NewExpiry(calls[i].now, now)
           /\ lastLoad' = IF calls[i].now > lastLoad THEN calls[i].now ELSE lastLoad
           /\ \E fc \in FeeFromPricing(pricing, calls[i].promptTokens,
                                       calls[i].completionTokens, SANDBOX_FEE_RATE) :
                 calls' = [calls EXCEPT ![i] =
                               Finish([calls[i] EXCEPT !.bulk = table], pricing, fc)]
    /\ UNCHANGED <<now, SANDBOX_FEE_RATE, pricing_overrides, PRICING_V1>>
    /\ UNCHANGED <<feeCall, cloud_api_keys, authCall, pipelineVars>>

\* The caller takes the result.
Return(i) ==
    /\ calls[i].pc = "done"
    /\ calls' = [calls EXCEPT ![i] = IdleCall]
    /\ UNCHANGED <<now, SANDBOX_FEE_RATE, pricing_overrides, PRICING_V1,
                   pricingCache, cacheExpiry, lastLoad>>
    /\ UNCHANGED <<feeCall, cloud_api_keys, authCall, pipelineVars>>

\* Time passes.
Tick ==
    /\ now < MaxTime
    /\ now' = now + 1
    /\ UNCHANGED <<SANDBOX_FEE_RATE, pricing_overrides, PRICING_V1, pricingCache,
                   cacheExpiry, calls, lastLoad>>
    /\ UNCHANGED <<feeCall, cloud_api_keys, authCall, pipelineVars>>

\* The stores are written from outside the worker.
SetPricingV1 ==
    /\ \E v \in KvValues : v # PRICING_V1 /\ PRICING_V1' = v
    /\ UNCHANGED <<now, SANDBOX_FEE_RATE, pricing_overrides, pricingCache,
                   cacheExpiry, calls, lastLoad>>
    /\ UNCHANGED <<feeCall, cloud_api_keys, authCall, pipelineVars>>

SetOverrides ==
    /\ \E t \in OverrideTables : t # pricing_overrides /\ pricing_overrides' = t
    /\ UNCHANGED <<now, SANDBOX_FEE_RATE, PRICING_V1, pricingCache, cacheExpiry,
                   calls, lastLoad>>
    /\ UNCHANGED <<feeCall, cloud_api_keys, authCall, pipelineVars>>

-----------------------------------------------------------------------------
(* AuthService.validateApiKey *)

Bearer == <<"B", "e", "a", "r", "e", "r", " ">>

\* A prefix test that never matches.
startsWith_never(text, prefix) == FALSE

\* text.startsWith(prefix)
startsWith(text, prefix) ==
    /\ Len(text) >= Len(prefix)
    /\ SubSeq(text, 1, Len(prefix)) = prefix

\* text.slice(7)
slice7(text) == SubSeq(text, 8, Len(text))

\* Keys a caller can present, and the rows the allow-list can hold.
Key1 == <<"s", "k", "-", "1">>
Key2 == <<"s", "k", "-", "2">>
KeyUnknown == <<"S", "K", "-", "1">>
PresentableKeys == {Key1, Key2, KeyUnknown}
ApiKeyRows == {[id |-> "key-id-1", key |-> Key1], [id |-> "key-id-2", key |-> Key2]}
KeyStores == SUBSET ApiKeyRows

\* request.headers.get(...) of the two headers: null when the header is absent.
AuthorizationValues ==
    {NullText, <<"B", "a", "s", "i", "c", " ", "x">>, <<"b", "e", "a", "r", "e", "r", " ">> \o Key1}
        \cup {Bearer \o k : k \in PresentableKeys}
CloudKeyValues == {NullText, <<>>} \cup PresentableKeys
Requests == [Authorization : AuthorizationValues, XElizaCloudKey : CloudKeyValues]

\* An extractApiKey that looks at X-Eliza-Cloud-Key before Authorization.
extractApiKey_cloudKeyFirst(request) ==
    IF request.XElizaCloudKey # NullText /\ request.XElizaCloudKey # <<>>
    THEN request.XElizaCloudKey
    ELSE IF request.Authorization # NullText /\ startsWith(request.Authorization, Bearer)
    THEN slice7(request.Authorization)
    ELSE NullText

\* extractApiKey: the Bearer token of Authorization, else X-Eliza-Cloud-Key,
\* else null.  authHeader?.startsWith is undefined (falsy) for a null header.
extractApiKey(request) ==
    IF request.Authorization # NullText /\ startsWith(request.Authorization, Bearer)
    THEN slice7(request.Authorization)
    ELSE IF request.XElizaCloudKey # NullText /\ request.XElizaCloudKey # <<>>
    THEN request.XElizaCloudKey
    ELSE NullText

\* !apiKey
ApiKeyMissing(apiKey) == apiKey = NullText \/ apiKey = <<>>

\* A lookup without its WHERE clause.
SelectApiKey_anyRow(table, apiKey) == table

\* SELECT id, key FROM cloud_api_keys WHERE key = ? LIMIT 1: the rows that
\* .first() can deliver (key is UNIQUE, so at most one).
SelectApiKey(table, apiKey) == {row \in table : row.key = apiKey}

NoText == "undefined"   \* an AuthResult field that is not set
AuthFailure(error) == [success |-> FALSE, keyId |-> NoText, apiKey |-> NullText, error |-> error]
AuthSuccess(keyId, apiKey) == [success |-> TRUE, keyId |-> keyId, apiKey |-> apiKey, error |-> NoText]

IdleAuthCall ==
    [pc |-> "idle", request |-> [Authorization |-> NullText, XElizaCloudKey |-> NullText],
     apiKey |-> NullText, threw |-> FALSE, result |-> AuthFailure(NoText),
     queried |-> <<>>]      \* history: the keys the store was asked for

AuthInit ==
    /\ cloud_api_keys = {}
    /\ authCall = IdleAuthCall

\* validateApiKey(request) up to the await of the lookup.
validateApiKey ==
    /\ authCall.pc = "idle"
    /\ \E request \in Requests :
          LET apiKey == extractApiKey(request)
              call == [IdleAuthCall EXCEPT !.request = request, !.apiKey = apiKey]
          IN  IF ApiKeyMissing(apiKey)
              THEN authCall' = [call EXCEPT !.pc = "done",
                                            !.result = AuthFailure("Missing API key")]
              ELSE authCall' = [call EXCEPT !.pc = "lookup",
                                            !.queried = Append(call.queried, apiKey)]
    /\ UNCHANGED <<cloud_api_keys, SANDBOX_FEE_RATE, pricingVars, feeCall, pipelineVars>>

\* The lookup answers.
LookupReturns ==
    /\ authCall.pc = "lookup"
    /\ LET rows == SelectApiKey(cloud_api_keys, authCall.apiKey)
       IN  IF rows = {}
           THEN authCall' = [authCall EXCEPT !.pc = "done",
                                             !.result = AuthFailure("Invalid API key")]
           ELSE \E row \in rows :
                   authCall' = [authCall EXCEPT !.pc = "done",
                                    !.result = AuthSuccess(row.id, authCall.apiKey)]
    /\ UNCHANGED <<cloud_api_keys, SANDBOX_FEE_RATE, pricingVars, feeCall, pipelineVars>>

\* The lookup throws: the catch block answers.
LookupThrows ==
    /\ authCall.pc = "lookup"
    /\ authCall' = [authCall EXCEPT !.pc = "done", !.threw = TRUE,
                                    !.result = AuthFailure("Authentication failed")]
    /\ UNCHANGED <<cloud_api_keys, SANDBOX_FEE_RATE, pricingVars, feeCall, pipelineVars>>

\* The caller takes the result.
AuthReturn ==
    /\ authCall.pc = "done"
    /\ authCall' = IdleAuthCall
    /\ UNCHANGED <<cloud_api_keys, SANDBOX_FEE_RATE, pricingVars, feeCall, pipelineVars>>

-----------------------------------------------------------------------------
(* JSON bodies and ProxyService.validateChatRequest *)

JsNull == [t |-> "null"]
JsUndefined == [t |-> "undefined"]
JsNumber(n) == [t |-> "number", n |-> n]
JsString(s) == [t |-> "string", s |-> s]
JsArray(items) == [t |-> "array", items |-> items]
JsObject(fields) == [t |-> "object", fields |-> fields]

\* !v is false
Truthy(v) ==
    CASE v.t \in {"null", "undefined"} -> FALSE
      [] v.t = "number" -> v.n # 0
      [] v.t = "string" -> v.s # ""
      [] OTHER -> TRUE

\* typeof v === 'object' (null included)
TypeofObject(v) == v.t \in {"null", "array", "object"}

\* v.key throws a TypeError on null and undefined.
GetThrows(v) == v.t \in {"null", "undefined"}

\* v.key for one of the keys model, messages, role, content: an own field of
\* an object, undefined on arrays and primitives.
Get(v, key) ==
    IF v.t = "object" /\ key \in DOMAIN v.fields THEN v.fields[key] ELSE JsUndefined

Valid == [outcome |-> "valid", error |-> "undefined"]
Invalid(error) == [outcome |-> "invalid", error |-> error]
TypeErrorThrown == [outcome |-> "throws", error |-> "undefined"]

\* for (const message of body.messages) if (!message.role || !message.content)
RECURSIVE CheckMessages(_)
CheckMessages(items) ==
    IF items = <<>> THEN Valid
    ELSE IF GetThrows(Head(items)) THEN TypeErrorThrown
    ELSE IF ~Truthy(Get(Head(items), "role")) \/ ~Truthy(Get(Head(items), "content"))
    THEN Invalid("Each message must have role and content fields")
    ELSE CheckMessages(Tail(items))

validateChatRequest(body) ==
    IF ~Truthy(body) \/ ~TypeofObject(body)
    THEN Invalid("Request body must be a JSON object")
    ELSE IF ~Truthy(Get(body, "model")) \/ Get(body, "model").t # "string"
    THEN Invalid("Missing or invalid model field")
    ELSE IF Get(body, "messages").t # "array" \/ Len(Get(body, "messages").items) = 0
    THEN Invalid("Messages must be a non-empty array")
    ELSE CheckMessages(Get(body, "messages").items)

\* Bodies a caller can send: text that is not JSON, or a JSON value.
Unparsable == [t |-> "unparsable"]

Message(role, content) ==
    JsObject([k \in {"role", "content"} |-> IF k = "role" THEN role ELSE content])
GoodMessage == Message(JsString("user"), JsString("Hello there"))
MessageElements ==
    {Message(JsString("user"), JsString("")),
     JsObject([k \in {"role"} |-> JsString("user")]),
     JsNull, JsNumber(5)}
MessagesValues ==
    {JsString("hi"), JsArray(<<>>), JsArray(<<GoodMessage>>), JsArray(<<JsNumber(5)>>)}
        \cup {JsArray(<<GoodMessage, e>>) : e \in MessageElements}
ModelValues == {JsString(""), JsString("gpt-4o-mini"), JsNumber(4)}
ChatObject(model, messages) ==
    JsObject([k \in {"model", "messages"} |-> IF k = "model" THEN model ELSE messages])
Bodies ==
    {Unparsable, JsNull, JsNumber(5), JsArray(<<>>),
     JsObject([k \in {"messages"} |-> JsArray(<<GoodMessage>>)])}
        \cup {ChatObject(m, JsArray(<<GoodMessage>>)) : m \in ModelValues}
        \cup {ChatObject(JsString("gpt-4o-mini"), ms) : ms \in MessagesValues}

-----------------------------------------------------------------------------
(* The request pipeline: fetch -> handleAgentChat, and usage recording *)

\* The requests the worker serves, in order of arrival.
RequestOrder == <<"r1", "r2">>

\* The handler files: src/index.ts, and the variants that default the session.
HandlerFiles == {"index.ts", "part_004"}

Methods == {"POST", "GET", "OPTIONS"}
SessionValues == {NullText, <<>>, <<"s", "1">>}     \* no ?session, ?session=, ?session=s1
ChatCredentials ==
    {[Authorization |-> NullText, XElizaCloudKey |-> NullText],
     [Authorization |-> Bearer \o Key1, XElizaCloudKey |-> NullText],
     [Authorization |-> NullText, XElizaCloudKey |-> KeyUnknown]}
ChatRequests ==
    {[method |-> m, Authorization |-> c.Authorization, XElizaCloudKey |-> c.XElizaCloudKey,
      session |-> ss, body |-> b] :
        m \in Methods, c \in ChatCredentials, ss \in SessionValues, b \in Bodies}

\* error.toLowerCase().replace(/\s+/g, '_') on the error names the worker uses.
ErrorType(error) ==
    CASE error = "Method Not Allowed" -> "method_not_allowed"
      [] error = "Unauthorized" -> "unauthorized"
      [] error = "Bad Request" -> "bad_request"
      [] error = "Bad Gateway" -> "bad_gateway"
      [] error = "Service Unavailable" -> "service_unavailable"
      [] error = "Internal Server Error" -> "internal_server_error"

\* A response: status, the error object of an error body (message, type,
\* code), the fee headers, and the Access-Control-Allow-Origin and
\* X-Eliza-Cloud-Request-Id headers ("none" when not set).
NoResponse == [status |-> 0, type |-> "none", message |-> "none", headers |-> NoHeaders,
               body |-> "none", code |-> NullText, allowOrigin |-> "none",
               requestId |-> "none"]

\* An error response whose code is left out of the error object.
createErrorResponse_withoutCode(status, error, message) ==
    [NoResponse EXCEPT !.status = status, !.type = ErrorType(error), !.message = message,
                       !.body = "error", !.allowOrigin = "*"]

\* createErrorResponse: the error object with code status.toString(), and the
\* Access-Control-Allow-Origin header.
createErrorResponse(status, error, message) ==
    [NoResponse EXCEPT !.status = status, !.type = ErrorType(error), !.message = message,
                       !.body = "error", !.code = IntDigits(status), !.allowOrigin = "*"]

handleCors == [NoResponse EXCEPT !.status = 204, !.allowOrigin = "*"]

\* A success response that sets no X-Eliza-Cloud-Request-Id header.
ChatResponse_withoutRequestId(feeCalculation, requestId) ==
    [NoResponse EXCEPT !.status = 200, !.headers = FeeHeaders(feeCalculation),
                       !.body = "chat.completion", !.allowOrigin = "*"]

\* createResponseWithHeaders: status 200, the chat body, the fee headers and
\* the request id header (requestId is a non-empty id here).
ChatResponse(feeCalculation, requestId) ==
    [NoResponse EXCEPT !.status = 200, !.headers = FeeHeaders(feeCalculation),
                       !.body = "chat.completion", !.allowOrigin = "*",
                       !.requestId = requestId]

\* url.searchParams.get('session'): null when the parameter is absent.
extractSessionId(request) == request.session

DefaultSession == <<"d", "e", "f", "a", "u", "l", "t", "-", "s", "e", "s", "s", "i", "o", "n">>

\* The sessionId of the handler: extractSessionId(request) in src/index.ts,
\* extractSessionId(request) || 'default-session' in the variants.
SessionIdOf(handler, request) ==
    LET sessionId == extractSessionId(request)
    IN  IF handler = "part_004" /\ (sessionId = NullText \/ sessionId = <<>>)
        THEN DefaultSession
        ELSE sessionId

\* messages[0].content of a validated body (a non-empty string here).
UserMessage(body) == Get(Get(body, "messages").items[1], "content").s

\* What the upstream chat backend does with the agent's call.
UpstreamIds == {"chatcmpl-1", "chatcmpl-2"}
UpstreamOutcomes ==
    {[kind |-> "ok", id |-> i, model |-> "gpt-4o-mini", prompt_tokens |-> 100,
      completion_tokens |-> 200] : i \in UpstreamIds}
        \cup {[kind |-> "non2xx"], [kind |-> "unreachable"]}

\* uuidv4(): a fresh id for each caller.
Uuid(caller) ==
    CASE caller = "r1" -> "uuid-1" [] caller = "r2" -> "uuid-2" [] OTHER -> "uuid-3"

\* Math.ceil(length / 4)
CeilQuarter(length) == (length + 3) \div 4

\* conversationMemories of a new AgentService: no session has an entry.  The
\* model follows the entry of the session of the request in hand.
NoMemories == [has |-> FALSE, items |-> <<>>]

\* The memories of the session after processMessage: the entry is created
\* before the upstream call; the user message and the reply are pushed once
\* the upstream has answered, and the oldest are dropped beyond twenty.
MemoriesAfter(memories, userMessage, upstream) ==
    LET entry == [has |-> TRUE, items |-> memories.items]
        pushed == entry.items \o <<[source |-> "user", text |-> userMessage],
                                   [source |-> "agent", text |-> "reply"]>>
    IN  IF upstream.kind = "ok"
        THEN [entry EXCEPT !.items =
                 IF Len(pushed) > 20 THEN SubSeq(pushed, Len(pushed) - 19, Len(pushed))
                 ELSE pushed]
        ELSE entry

\* A catch block that estimates no tokens for its reply.
processMessage_unestimated(userMessage, caller, upstream) ==
    IF upstream.kind = "ok"
    THEN [id |-> upstream.id, model |-> upstream.model,
          prompt_tokens |-> upstream.prompt_tokens,
          completion_tokens |-> upstream.completion_tokens, error |-> FALSE]
    ELSE [id |-> Uuid(caller), model |-> "eliza-sandbox-agent",
          prompt_tokens |-> 0, completion_tokens |-> 0, error |-> TRUE]

\* AgentService.processMessage: the upstream answer, or, when the call to the
\* upstream throws (unreachable, or a status that is not 2xx), the catch
\* block's reply.  It never throws once the service is initialized.
processMessage(userMessage, caller, upstream) ==
    IF upstream.kind = "ok"
    THEN [id |-> upstream.id, model |-> upstream.model,
          prompt_tokens |-> upstream.prompt_tokens,
          completion_tokens |-> upstream.completion_tokens, error |-> FALSE]
    ELSE [id |-> Uuid(caller), model |-> "eliza-sandbox-agent",
          prompt_tokens |-> CeilQuarter(Len(userMessage)),
          completion_tokens |-> 20, error |-> TRUE]

\* getModelPricing reaches the await of PRICING.get: the override query
\* answered with no row and the cache of the request's PricingService does
\* not serve.
BulkFetch(model, overrideThrows) ==
    /\ ~overrideThrows
    /\ ~OverrideFound(SelectOverride(pricing_overrides, model))
    /\ ~CacheValid(pricingCache, cacheExpiry, now)

\* PRICING.get is awaited and delivers a table that JSON.parse accepts.
BulkLoads(model, overrideThrows, kvThrows) ==
    /\ BulkFetch(model, overrideThrows)
    /\ ~kvThrows
    /\ ~KvFalsy(PRICING_V1)
    /\ PRICING_V1 # KvUnparsable

\* getModelPricing on the PricingService made for the request.
ResolvePricing(model, overrideThrows, kvThrows) ==
    IF overrideThrows THEN Null
    ELSE IF OverrideFound(SelectOverride(pricing_overrides, model))
    THEN SelectOverride(pricing_overrides, model)
    ELSE IF CacheValid(pricingCache, cacheExpiry, now) THEN Lookup(pricingCache, model)
    ELSE IF BulkLoads(model, overrideThrows, kvThrows)
    THEN Lookup(PRICING_V1.value, model)
    ELSE Lookup(FailedLoadTable(pricingCache), model)

\* Which external pricing call failed for the request, if any.
PricingFailure(model, overrideThrows, kvThrows) ==
    IF overrideThrows THEN "override"
    ELSE IF BulkFetch(model, overrideThrows) /\ ~BulkLoads(model, overrideThrows, kvThrows)
    THEN "bulk"
    ELSE "none"

\* The row recordUsage binds to its INSERT (ts and meta left out).
\* Arguments put together before the fee of the request is computed.
RecordingArgs_feeNotComputed(keyId, sessionId, model, promptTokens, completionTokens, feeCalculation, requestId) ==
    [keyId |-> keyId, sessionId |-> sessionId, model |-> model,
     promptTokens |-> promptTokens, completionTokens |-> completionTokens,
     feeCalculation |-> ZeroFee, requestId |-> requestId]

\* The arguments of a recording operation.
RecordingArgs(keyId, sessionId, model, promptTokens, completionTokens, feeCalculation, requestId) ==
    [keyId |-> keyId, sessionId |-> sessionId, model |-> model,
     promptTokens |-> promptTokens, completionTokens |-> completionTokens,
     feeCalculation |-> feeCalculation, requestId |-> requestId]

\* A usage event that gets an id of its own instead of the request id.
UsageEvent_ownId(keyId, sessionId, model, promptTokens, completionTokens, feeCalculation, requestId) ==
    [id |-> "event-1", cloud_key_id |-> keyId, session_id |-> sessionId, model |-> model,
     prompt_tokens |-> promptTokens, completion_tokens |-> completionTokens,
     base_cost_usd |-> feeCalculation.base_cost_usd,
     platform_fee_usd |-> feeCalculation.platform_fee_usd,
     total_cost_usd |-> feeCalculation.total_cost_usd,
     request_id |-> requestId]

\* The UsageEvent both recording operations build before their INSERT.
UsageEvent(keyId, sessionId, model, promptTokens, completionTokens, feeCalculation, requestId) ==
    [id |-> requestId, cloud_key_id |-> keyId, session_id |-> sessionId, model |-> model,
     prompt_tokens |-> promptTokens, completion_tokens |-> completionTokens,
     base_cost_usd |-> feeCalculation.base_cost_usd,
     platform_fee_usd |-> feeCalculation.platform_fee_usd,
     total_cost_usd |-> feeCalculation.total_cost_usd,
     request_id |-> requestId]

\* An INSERT that replaces the row already stored under the id.
InsertRow_replacing(table, row) == {r \in table : r.id # row.id} \cup {row}

\* A table without the uniqueness constraint on id.
PrimaryKeyTaken_never(table, row) == FALSE

\* id TEXT PRIMARY KEY: a row with the id is stored already.
PrimaryKeyTaken(table, row) == \E r \in table : r.id = row.id

\* INSERT INTO usage_events: id is the primary key, so the statement fails and
\* leaves the table alone when a row has the id already.
InsertRow(table, row) == IF PrimaryKeyTaken(table, row) THEN table ELSE table \cup {row}

\* A recording operation that has run up to the await of its INSERT.
PendingRecording(caller, op, args) ==
    [caller |-> caller, op |-> op, state |-> "pending", inserted |-> FALSE, args |-> args,
     event |-> UsageEvent(args.keyId, args.sessionId, args.model, args.promptTokens,
                          args.completionTokens, args.feeCalculation, args.requestId)]

NoEffects ==
    [authLookup |-> FALSE, bodyRead |-> FALSE, validated |-> FALSE, agentCall |-> FALSE,
     pricingLookup |-> FALSE, kvFetch |-> FALSE, usageInsert |-> FALSE]

NoAgentResponse ==
    [id |-> "none", model |-> "none", prompt_tokens |-> 0, completion_tokens |-> 0,
     error |-> FALSE]

IdleChat ==
    [pc |-> "idle", n |-> 0, id |-> "none", handler |-> "index.ts",
     request |-> [method |-> "POST", Authorization |-> NullText,
                  XElizaCloudKey |-> NullText, session |-> NullText, body |-> Unparsable],
     apiKey |-> NullText, keyId |-> NoText, sessionId |-> NullText,
     upstream |-> "none", agentResponse |-> NoAgentResponse,
     memories |-> NoMemories,
     feeCalculation |-> ZeroFee, pricingFailure |-> "none", response |-> NoResponse,
     effects |-> NoEffects]

PipelineInit ==
    /\ chat = IdleChat
    /\ usage_events = {}
    /\ recordings = {}

\* A handler that holds its 200 response back until the recording is done.
ReturnResponse_afterRecording(call, response) ==
    IF response.status = 200 THEN [call EXCEPT !.pc = "recording"]
    ELSE [call EXCEPT !.pc = "responded", !.response = response]

\* return <response>: the handler is done with the request.
ReturnResponse(call, response) == [call EXCEPT !.pc = "responded", !.response = response]

\* A method test that lets every method through.
MethodAllowed_any(method) == TRUE

\* request.method !== 'POST' is false
MethodAllowed(method) == method = "POST"

\* A test of the authentication result that never refuses.
Unauthorized_never(authResult) == FALSE

\* !authResult.success
Unauthorized(authResult) == ~authResult.success

\* The handler once validateApiKey has returned: 401, or on to the await of
\* request.json().
AfterAuth(call, authResult) ==
    IF Unauthorized(authResult)
    THEN ReturnResponse(call, createErrorResponse(401, "Unauthorized", authResult.error))
    ELSE [call EXCEPT !.pc = "body_read", !.keyId = authResult.keyId,
                      !.effects.bodyRead = TRUE]

\* new PricingService(env): the field initialisers of the class.
NewPricingCache == Null
NewCacheExpiry == 0

\* fetch and handleAgentChat up to the await of the allow-list lookup; a POST
\* gets services of its own.
Receive ==
    /\ chat.pc \in {"idle", "responded"}
    /\ chat.n < Len(RequestOrder)
    /\ \E request \in ChatRequests :
          LET call == [IdleChat EXCEPT !.n = chat.n + 1, !.id = RequestOrder[chat.n + 1],
                                       !.handler = chat.handler, !.request = request]
              apiKey == extractApiKey(request)
          IN  IF request.method = "OPTIONS"
              THEN /\ chat' = ReturnResponse(call, handleCors)
                   /\ UNCHANGED <<pricingCache, cacheExpiry>>
              ELSE IF ~MethodAllowed(request.method)
              THEN /\ chat' = ReturnResponse(call,
                         createErrorResponse(405, "Method Not Allowed",
                                             "Only POST requests are allowed"))
                   /\ UNCHANGED <<pricingCache, cacheExpiry>>
              ELSE /\ pricingCache' = NewPricingCache
                   /\ cacheExpiry' = NewCacheExpiry
                   /\ IF ApiKeyMissing(apiKey)
                      THEN chat' = AfterAuth(call, AuthFailure("Missing API key"))
                      ELSE chat' = [call EXCEPT !.pc = "auth_lookup", !.apiKey = apiKey,
                                                !.effects.authLookup = TRUE]
    /\ UNCHANGED <<usage_events, recordings>>
    /\ UNCHANGED <<now, pricing_overrides, PRICING_V1, calls, lastLoad>>
    /\ UNCHANGED <<SANDBOX_FEE_RATE, feeCall, authVars>>

\* The allow-list lookup answers: 401, or on to the await of request.json().
ChatAuthReturns ==
    /\ chat.pc = "auth_lookup"
    /\ LET rows == SelectApiKey(cloud_api_keys, chat.apiKey)
       IN  IF rows = {}
           THEN chat' = AfterAuth(chat, AuthFailure("Invalid API key"))
           ELSE \E row \in rows :
                   chat' = AfterAuth(chat, AuthSuccess(row.id, chat.apiKey))
    /\ UNCHANGED <<usage_events, recordings>>
    /\ UNCHANGED <<SANDBOX_FEE_RATE, pricingVars, feeCall, authVars>>

\* The allow-list lookup throws: validateApiKey's catch, then 401.
ChatAuthThrows ==
    /\ chat.pc = "auth_lookup"
    /\ chat' = AfterAuth(chat, AuthFailure("Authentication failed"))
    /\ UNCHANGED <<usage_events, recordings>>
    /\ UNCHANGED <<SANDBOX_FEE_RATE, pricingVars, feeCall, authVars>>

\* request.json() settles: 400 for text that is no JSON and for a body the
\* validation refuses, 500 (the outer catch) when the validation throws, else
\* initialize, the session id and processMessage up to its call upstream.
ChatBodyRead ==
    /\ chat.pc = "body_read"
    /\ LET body == chat.request.body
           validation == validateChatRequest(body)
       IN  IF body = Unparsable
           THEN chat' = ReturnResponse(chat,
                   createErrorResponse(400, "Bad Request", "Invalid JSON body"))
           ELSE IF validation.outcome = "invalid"
           THEN chat' = ReturnResponse([chat EXCEPT !.effects.validated = TRUE],
                   createErrorResponse(400, "Bad Request", validation.error))
           ELSE IF validation.outcome = "throws"
           THEN chat' = ReturnResponse([chat EXCEPT !.effects.validated = TRUE],
                   createErrorResponse(500, "Internal Server Error",
                                       "Request processing failed"))
           ELSE chat' = [chat EXCEPT !.pc = "upstream",
                                     !.sessionId = SessionIdOf(chat.handler, chat.request),
                                     !.effects.validated = TRUE,
                                     !.effects.agentCall = TRUE]
    /\ UNCHANGED <<usage_events, recordings>>
    /\ UNCHANGED <<SANDBOX_FEE_RATE, pricingVars, feeCall, authVars>>

\* The upstream settles: processMessage returns, and the handler goes on to
\* the await of calculateSandboxFee.
ChatUpstream ==
    /\ chat.pc = "upstream"
    /\ \E upstream \in UpstreamOutcomes :
          chat' = [chat EXCEPT !.pc = "pricing", !.upstream = upstream.kind,
                               !.agentResponse =
                                   processMessage(UserMessage(chat.request.body),
                                                  chat.id, upstream),
                               !.memories =
                                   MemoriesAfter(chat.memories,
                                                 UserMessage(chat.request.body), upstream),
                               !.effects.pricingLookup = TRUE]
    /\ UNCHANGED <<usage_events, recordings>>
    /\ UNCHANGED <<SANDBOX_FEE_RATE, pricingVars, feeCall, authVars>>

\* calculateSandboxFee settles: recordUsage is started under ctx.waitUntil (it
\* runs up to the await of its INSERT) and the response is returned.
ChatPriced ==
    /\ chat.pc = "pricing"
    /\ \E overrideThrows \in BOOLEAN, kvThrows \in BOOLEAN :
          LET agent == chat.agentResponse
              pricing == ResolvePricing(agent.model, overrideThrows, kvThrows)
              fetch == BulkFetch(agent.model, overrideThrows)
              loads == BulkLoads(agent.model, overrideThrows, kvThrows)
          IN  \E fc \in FeeFromPricing(pricing, agent.prompt_tokens,
                                       agent.completion_tokens, SANDBOX_FEE_RATE) :
                 /\ pricingCache' = IF loads THEN ReplaceCache(pricingCache, PRICING_V1.value)
                                    ELSE pricingCache
                 /\ cacheExpiry' = IF loads THEN NewExpiry(now, now) ELSE cacheExpiry
                 /\ lastLoad' = IF loads THEN now ELSE lastLoad
                 /\ recordings' = recordings \cup
                        {PendingRecording(chat.id, "recordUsage",
                             RecordingArgs(chat.keyId, chat.sessionId, agent.model,
                                        agent.prompt_tokens, agent.completion_tokens,
                                        fc, agent.id))}
                 /\ chat' = ReturnResponse(
                        [chat EXCEPT !.feeCalculation = fc,
                                     !.pricingFailure =
                                         PricingFailure(agent.model, overrideThrows, kvThrows),
                                     !.effects.kvFetch = fetch,
                                     !.effects.usageInsert = TRUE],
                        ChatResponse(fc, agent.id))
    /\ UNCHANGED usage_events
    /\ UNCHANGED <<now, pricing_overrides, PRICING_V1, calls>>
    /\ UNCHANGED <<SANDBOX_FEE_RATE, feeCall, authVars>>

\* How a recording operation completes for its caller: recordUsage catches and
\* logs a failed INSERT, logUsageEvent logs it and throws it again, and
\* trackMessageProcessing awaits logUsageEvent outside any try.
RecordingOutcome(op, failed) ==
    IF failed /\ op = "trackMessageProcessing" THEN "rejected" ELSE "fulfilled"

\* BillingService.trackMessageProcessing up to the await of its INSERT.
TelegramSession == <<"t", "g", "-", "1", "-", "2">>
TrackedUsageCosts == {Num(7000)}
trackMessageProcessing ==
    /\ \A rec \in recordings : rec.op # "trackMessageProcessing"
    /\ \E baseCost \in TrackedUsageCosts :
          recordings' = recordings \cup
              {PendingRecording("telegram", "trackMessageProcessing",
                   RecordingArgs("test-key-123", TelegramSession, "eliza-agent", 100, 200,
                              BillingFee(baseCost, SANDBOX_FEE_RATE), Uuid("telegram")))}
    /\ UNCHANGED <<chat, usage_events>>
    /\ UNCHANGED <<SANDBOX_FEE_RATE, pricingVars, feeCall, authVars>>

\* UsageService.recordUsage called on its own, up to the await of its INSERT.
InvocationOrder == <<"i1", "i2">>
RecordedSessions == {NullText, <<"s", "1">>}
RecordedModels == {"gpt-4o-mini", "eliza-sandbox-agent"}
RecordedFees ==
    {ZeroFee,
     [base_cost_usd |-> Num(7000), platform_fee_usd |-> Num(1400), total_cost_usd |-> Num(8400)]}
RequestIdValues == UpstreamIds \cup {"uuid-1"}
recordUsage ==
    /\ Cardinality({rec \in recordings : rec.op = "recordUsage"}) < Len(InvocationOrder)
    /\ \E sessionId \in RecordedSessions, model \in RecordedModels,
          feeCalculation \in RecordedFees, requestId \in RequestIdValues :
          recordings' = recordings \cup
              {PendingRecording(
                   InvocationOrder[Cardinality({rec \in recordings :
                                                   rec.op = "recordUsage"}) + 1],
                   "recordUsage",
                   RecordingArgs("key-id-1", sessionId, model, 100, 200, feeCalculation,
                                 requestId))}
    /\ UNCHANGED <<chat, usage_events>>
    /\ UNCHANGED <<SANDBOX_FEE_RATE, pricingVars, feeCall, authVars>>

\* The INSERT of a recording operation settles: the row is stored, or the
\* statement fails (the storage is down, or the id is taken).
InsertSettles ==
    \E rec \in recordings :
        /\ rec.state = "pending"
        /\ \E storageFails \in BOOLEAN :
              LET failed == storageFails \/ PrimaryKeyTaken(usage_events, rec.event)
              IN  /\ usage_events' = IF storageFails THEN usage_events
                                     ELSE InsertRow(usage_events, rec.event)
                  /\ recordings' = (recordings \ {rec}) \cup
                        {[rec EXCEPT !.state = RecordingOutcome(rec.op, failed),
                                     !.inserted = ~failed]}
        /\ UNCHANGED chat
        /\ UNCHANGED <<SANDBOX_FEE_RATE, pricingVars, feeCall, authVars>>

-----------------------------------------------------------------------------
(* Specifications *)

Init ==
    /\ PricingInit
    /\ SANDBOX_FEE_RATE \in MainFeeRateConfigs
    /\ feeCall = IdleFeeCall
    /\ AuthInit
    /\ PipelineInit

Next ==
    \/ \E i \in CallIds : Call(i)
    \/ \E i \in CallIds : OverrideQueryThrows(i)
    \/ \E i \in CallIds : OverrideQueryReturns(i)
    \/ \E i \in CallIds : KvGetFails(i)
    \/ \E i \in CallIds : KvGetLoads(i)
    \/ \E i \in CallIds : Return(i)
    \/ Tick
    \/ SetPricingV1
    \/ SetOverrides

Spec == Init /\ [][Next]_vars

SpecFeeInit ==
    /\ PricingInit
    /\ pricing_overrides = EmptyTable
    /\ PRICING_V1 = KvNull
    /\ FeeInit
    /\ AuthInit
    /\ PipelineInit

SpecFeeNext ==
    \/ PricingCalculate
    \/ createResponseWithHeaders
    \/ BillingCalculate

SpecFee == SpecFeeInit /\ [][SpecFeeNext]_vars

SpecAuthInit ==
    /\ PricingInit
    /\ pricing_overrides = EmptyTable
    /\ PRICING_V1 = KvNull
    /\ SANDBOX_FEE_RATE = DefaultFeeRateText
    /\ feeCall = IdleFeeCall
    /\ cloud_api_keys \in KeyStores
    /\ authCall = IdleAuthCall
    /\ PipelineInit

SpecAuthNext ==
    \/ validateApiKey
    \/ LookupReturns
    \/ LookupThrows
    \/ AuthReturn

SpecAuth == SpecAuthInit /\ [][SpecAuthNext]_vars

\* What the bulk pricing store holds while the worker serves its requests.
PipelineKvValues == {KvNull, KvJson([m \in {"gpt-4o-mini"} |-> ModelPricing(15, 60)])}

\* env.SANDBOX_FEE_RATE as the worker is configured (the 20% platform fee).
PipelineFeeRate == <<"0", ".", "2", "0">>

SpecPipelineInit ==
    /\ now = 0
    /\ pricing_overrides \in OverrideTables
    /\ PRICING_V1 \in PipelineKvValues
    /\ pricingCache = Null
    /\ cacheExpiry = 0
    /\ calls = [i \in CallIds |-> IdleCall]
    /\ lastLoad = NoLoad
    /\ SANDBOX_FEE_RATE = PipelineFeeRate
    /\ feeCall = IdleFeeCall
    /\ cloud_api_keys = ApiKeyRows
    /\ authCall = IdleAuthCall
    /\ \E handler \in HandlerFiles : chat = [IdleChat EXCEPT !.handler = handler]
    /\ usage_events = {}
    /\ recordings = {}

SpecPipelineNext ==
    \/ Receive
    \/ ChatAuthReturns
    \/ ChatAuthThrows
    \/ ChatBodyRead
    \/ ChatUpstream
    \/ ChatPriced
    \/ InsertSettles

SpecPipeline == SpecPipelineInit /\ [][SpecPipelineNext]_vars

SpecRecordingInit ==
    /\ PricingInit
    /\ pricing_overrides = EmptyTable
    /\ PRICING_V1 = KvNull
    /\ SANDBOX_FEE_RATE \in MainFeeRateConfigs
    /\ feeCall = IdleFeeCall
    /\ AuthInit
    /\ PipelineInit

SpecRecordingNext ==
    \/ recordUsage
    \/ trackMessageProcessing
    \/ InsertSettles

SpecRecording == SpecRecordingInit /\ [][SpecRecordingNext]_vars

-----------------------------------------------------------------------------
(* Properties of the fee arithmetic (SpecFee) *)

\* The fee computation has run PricingService.calculateSandboxFee on resolved
\* pricing with rates, under a fee rate that is configured.
PricedWithRates ==
    /\ feeCall.pc \in {"priced", "responded"}
    /\ feeCall.pricing \in {ModelPricing(i, o) : i \in Rates, o \in Rates}
    /\ SANDBOX_FEE_RATE # UndefinedText

\* A field of a FeeCalculation is `fine` (1e-10 USD) rounded to four decimals:
\* a whole number of 1e-4 USD at most half of 1e-4 USD away from it.
IsRounded4(x, fine) ==
    /\ ~x.nan
    /\ x.v % 100 = 0
    /\ Abs(x.v * 10000 - fine) <= 500000

\* C1: for resolved pricing with non-negative rates, non-negative token counts
\* and the configured fee rate, the result of calculateSandboxFee satisfies
\* |total_cost_usd - (base_cost_usd + platform_fee_usd)| <= 0.0001, one unit in
\* the fourth decimal place.
C1_TotalWithinTolerance ==
    PricedWithRates =>
        LET fc == feeCall.feeCalculation
        IN  /\ ~fc.base_cost_usd.nan /\ ~fc.platform_fee_usd.nan /\ ~fc.total_cost_usd.nan
            /\ Abs(fc.total_cost_usd.v - (fc.base_cost_usd.v + fc.platform_fee_usd.v)) <= 100

\* C1's case: a result whose total is a full unit of the fourth decimal away
\* from base plus fee.
C1_Witness ==
    /\ PricedWithRates
    /\ LET fc == feeCall.feeCalculation
       IN  Abs(fc.total_cost_usd.v - (fc.base_cost_usd.v + fc.platform_fee_usd.v)) = 100

\* C2: for resolved pricing (in, out), token counts p and c and fee rate r,
\* calculateSandboxFee returns base = round4(p/1000*in + c/1000*out),
\* fee = round4(r * unroundedBase) and total = round4(unroundedBase +
\* r * unroundedBase), each rounded on its own from the unrounded values; and
\* p = 100, c = 200, in = 0.01, out = 0.03, r = 0.20 gives 0.007, 0.0014, 0.0084.
C2_FieldsRoundedIndependently ==
    PricedWithRates =>
        LET fc == feeCall.feeCalculation
            unroundedBase == feeCall.promptTokens * feeCall.pricing.input_per_1k_usd
                             + feeCall.completionTokens * feeCall.pricing.output_per_1k_usd
            r == parseFloat(SANDBOX_FEE_RATE).v \div 10000
        IN  /\ IsRounded4(fc.base_cost_usd, 100 * unroundedBase)
            /\ IsRounded4(fc.platform_fee_usd, r * unroundedBase)
            /\ IsRounded4(fc.total_cost_usd, 100 * unroundedBase + r * unroundedBase)
            /\ (/\ feeCall.pricing = ModelPricing(1000, 3000)
                /\ feeCall.promptTokens = 100 /\ feeCall.completionTokens = 200
                /\ SANDBOX_FEE_RATE = <<"0", ".", "2", "0">>)
               => fc = [base_cost_usd |-> Num(7000), platform_fee_usd |-> Num(1400),
                        total_cost_usd |-> Num(8400)]

\* C2's case: a result whose total differs from its base plus its fee, which
\* only rounding each field on its own produces.
C2_Witness ==
    /\ PricedWithRates
    /\ feeCall.promptTokens > 0
    /\ LET fc == feeCall.feeCalculation
       IN  fc.total_cost_usd.v # fc.base_cost_usd.v + fc.platform_fee_usd.v

\* The validator of the test suite applied to the fee headers of a response.
HeadersValidation ==
    validateSandboxFeeCalculation(parseFloat(feeCall.headers[BaseCostHeader]),
                                  parseFloat(feeCall.headers[FeeHeader]),
                                  parseFloat(feeCall.headers[TotalHeader]))

\* C3: for every successful response the fee headers satisfy the validator:
\* the fee header equals 0.20 times the base-cost header within 0.0001 and the
\* ratio fee / base cost is within 0.05 of 0.20, for every base cost the
\* pipeline can produce.  Stated for the responses that favour it most: the
\* fee rate is configured as 0.20, the model has pricing with rates and the
\* base cost shown is positive.
C3_HeadersPassValidator ==
    (/\ feeCall.pc = "responded"
     /\ PricedWithRates
     /\ SANDBOX_FEE_RATE = <<"0", ".", "2", "0">>
     /\ feeCall.feeCalculation.base_cost_usd.v > 0) =>
        HeadersValidation.feeCorrect /\ HeadersValidation.rateCorrect

\* C9: with SANDBOX_FEE_RATE absent both calculators use the default rate
\* 0.20: platform fee = 0.20 x base cost and total = base + that fee, for
\* BillingService.calculateSandboxFee and for PricingService.calculateSandboxFee.
C9_DefaultFeeRate ==
    SANDBOX_FEE_RATE = UndefinedText =>
        LET fc == feeCall.feeCalculation
        IN  /\ feeCall.pc = "billed" =>
                  /\ ~fc.platform_fee_usd.nan /\ ~fc.total_cost_usd.nan
                  /\ 100 * fc.platform_fee_usd.v = 20 * fc.base_cost_usd.v
                  /\ fc.total_cost_usd.v = fc.base_cost_usd.v + fc.platform_fee_usd.v
            /\ (/\ feeCall.pc = "priced"
                /\ feeCall.pricing \in {ModelPricing(i, o) : i \in Rates, o \in Rates})
               => fc \in FeeFromPricing(feeCall.pricing, feeCall.promptTokens,
                                        feeCall.completionTokens, DefaultFeeRateText)

-----------------------------------------------------------------------------
(* Properties of price resolution on one PricingService instance (Spec) *)

\* C4: for every model with no row in the override table and no entry in the
\* bulk pricing table, calculateSandboxFee returns exactly {0, 0, 0}, for all
\* token counts and any fee-rate configuration.
C4_UnknownModelIsFree ==
    \A i \in CallIds :
        (/\ calls[i].pc = "done"
         /\ calls[i].path \in {"hit", "miss"}
         /\ calls[i].model \notin DOMAIN calls[i].bulk)
        => calls[i].result = ZeroFee

\* C5: price resolution consults the override table first: whenever it holds a
\* row for the requested model (and the query answers), that row's rates are
\* the ones used for the fee, whatever the bulk table contains for the model,
\* and the bulk table is used only when no override row exists.
C5_OverrideTakesPrecedence ==
    [][\A i \in CallIds :
          (/\ calls[i].pc = "override_query"
           /\ calls'[i].pc # "override_query"
           /\ calls'[i].path # "threw")
          => IF calls[i].model \in DOMAIN pricing_overrides
             THEN /\ calls'[i].pc = "done"
                  /\ calls'[i].path = "override"
                  /\ calls'[i].bulk = EmptyTable
                  /\ calls'[i].pricing = pricing_overrides[calls[i].model]
                  /\ calls'[i].result \in
                         FeeFromPricing(pricing_overrides[calls[i].model],
                                        calls[i].promptTokens, calls[i].completionTokens,
                                        SANDBOX_FEE_RATE)
             ELSE calls'[i].path \in {"hit", "miss"}]_vars

\* C5's case: a call priced from its override row while the cached bulk table
\* holds other rates for the same model.
C5_Witness ==
    \E i \in CallIds :
        /\ calls[i].pc = "done"
        /\ calls[i].path = "override"
        /\ pricingCache # Null
        /\ calls[i].model \in DOMAIN pricingCache
        /\ pricingCache[calls[i].model] # calls[i].pricing
        /\ calls[i].result # ZeroFee

\* C6: on one instance, after a successful bulk load at time t, every bulk
\* resolution at a time now < t + 5 minutes returns the cached table without
\* calling the external store (a cache hit, no refetch).
C6_CachedWithinTtl ==
    [][\A i \in CallIds :
          (/\ calls[i].pc = "override_query"
           /\ calls'[i].path \in {"hit", "miss"}
           /\ lastLoad # NoLoad
           /\ now < lastLoad + CACHE_TTL_MS)
          => /\ calls'[i].path = "hit"
             /\ calls'[i].pc = "done"
             /\ calls'[i].bulk = pricingCache]_vars

\* C7: whenever bulk pricing is resolved before any successful load or at a
\* time now >= cacheExpiry, a fetch from the external store is attempted before
\* anything is returned, and what is returned is the freshly fetched table
\* (with cacheExpiry reset to now + TTL) or, when the fetch fails or yields
\* nothing, the empty table: never the table cached before.
C7_NoStaleTableAfterExpiry ==
    [][\A i \in CallIds :
          /\ (/\ calls[i].pc = "override_query"
              /\ calls'[i].path \in {"hit", "miss"}
              /\ (pricingCache = Null \/ now >= cacheExpiry))
             => calls'[i].pc = "kv_get" /\ calls'[i].now = now
          /\ (calls[i].pc = "kv_get" /\ calls'[i].pc = "done")
             => \/ /\ PRICING_V1.kind = "json"
                   /\ calls'[i].bulk = PRICING_V1.value
                   /\ pricingCache' = PRICING_V1.value
                   /\ cacheExpiry' = calls[i].now + CACHE_TTL_MS
                \/ /\ calls'[i].bulk = EmptyTable
                   /\ pricingCache' = pricingCache
                   /\ cacheExpiry' = cacheExpiry]_vars

\* C7's case: a resolution after expiry whose fetch failed has returned the
\* empty table although the instance still holds the expired table.
C7_Witness ==
    \E i \in CallIds :
        /\ calls[i].pc = "done"
        /\ calls[i].path = "miss"
        /\ calls[i].bulk = EmptyTable
        /\ pricingCache # Null
        /\ calls[i].model \in DOMAIN pricingCache
        /\ now >= cacheExpiry

\* C8: calculateSandboxFee never throws: whatever fails while resolving the
\* price, the call completes with a defined FeeCalculation, which is exactly
\* {0, 0, 0} whenever no pricing could be resolved, and none of its three
\* fields is negative or NaN for non-negative inputs.
C8_AlwaysDefinedResult ==
    \A i \in CallIds :
        calls[i].pc = "done" =>
            /\ \A f \in {"base_cost_usd", "platform_fee_usd", "total_cost_usd"} :
                  ~calls[i].result[f].nan /\ calls[i].result[f].v >= 0
            /\ calls[i].pricing = Null => calls[i].result = ZeroFee

-----------------------------------------------------------------------------
(* Properties of AuthService.validateApiKey (SpecAuth) *)

\* The key a request presents: the one sent as "Bearer <key>" in Authorization,
\* else the one sent in X-Eliza-Cloud-Key; NullText when neither header has one.
PresentedKey(request) ==
    IF \E k \in PresentableKeys : request.Authorization = Bearer \o k
    THEN CHOOSE k \in PresentableKeys : request.Authorization = Bearer \o k
    ELSE IF request.XElizaCloudKey \in PresentableKeys THEN request.XElizaCloudKey
    ELSE NullText

\* C10: validateApiKey classifies every request into exactly one outcome and
\* never throws: no key presented in either header -> failure 'Missing API
\* key'; a key equal to no stored key (exact match) -> failure 'Invalid API
\* key'; a key equal to a stored key -> success with keyId the id of that row;
\* the lookup throwing -> failure 'Authentication failed'.  It writes to no
\* store.
C10_AuthOutcomes ==
    /\ [](authCall.pc = "done" =>
            LET key == PresentedKey(authCall.request)
                stored == {row \in cloud_api_keys : row.key = key}
            IN  IF key = NullText
                THEN authCall.result = AuthFailure("Missing API key")
                ELSE IF authCall.threw
                THEN authCall.result = AuthFailure("Authentication failed")
                ELSE IF stored = {}
                THEN authCall.result = AuthFailure("Invalid API key")
                ELSE /\ authCall.result.success
                     /\ authCall.result.error = NoText
                     /\ authCall.result.apiKey = key
                     /\ \E row \in stored : authCall.result.keyId = row.id)
    /\ [][/\ cloud_api_keys' = cloud_api_keys
          /\ pricing_overrides' = pricing_overrides
          /\ PRICING_V1' = PRICING_V1]_vars

\* C10's case: a request that sends a stored key in X-Eliza-Cloud-Key, beside
\* an Authorization header that is no Bearer token, has been accepted while the
\* allow-list also holds another key.
C10_Witness ==
    /\ authCall.pc = "done"
    /\ authCall.result.success
    /\ authCall.request.Authorization # NullText
    /\ authCall.apiKey = authCall.request.XElizaCloudKey
    /\ Cardinality(cloud_api_keys) = 2

\* C11: when a request carries both "Authorization: Bearer <k1>" and
\* "X-Eliza-Cloud-Key: <k2>", the key checked against the allow-list is k1; k2
\* is used only when there is no Authorization header of the Bearer form.
C11_BearerTakesPrecedence ==
    authCall.pc \in {"lookup", "done"} =>
        LET request == authCall.request
            bearerForm == \E k \in PresentableKeys : request.Authorization = Bearer \o k
        IN  /\ \A k1 \in PresentableKeys :
                  request.Authorization = Bearer \o k1 =>
                      /\ authCall.apiKey = k1
                      /\ (authCall.pc = "done" /\ ~authCall.threw) =>
                            (authCall.result.success <=>
                                 \E row \in cloud_api_keys : row.key = k1)
            /\ (~bearerForm /\ request.XElizaCloudKey \in PresentableKeys) =>
                  authCall.apiKey = request.XElizaCloudKey
            /\ (authCall.apiKey = request.XElizaCloudKey /\ authCall.apiKey # NullText)
                  => (~bearerForm \/ request.Authorization = Bearer \o request.XElizaCloudKey)

\* C11's case: a request with an unknown key as Bearer token and a stored key
\* in X-Eliza-Cloud-Key has been refused.
C11_Witness ==
    /\ authCall.pc = "done"
    /\ authCall.request.Authorization = Bearer \o KeyUnknown
    /\ authCall.request.XElizaCloudKey = Key1
    /\ \E row \in cloud_api_keys : row.key = Key1
    /\ authCall.result = AuthFailure("Invalid API key")

-----------------------------------------------------------------------------
(* C12 *)

\* Nothing of the pipeline after the authentication step has happened for the
\* request in hand.
HaltedAtAuth ==
    /\ ~chat.effects.bodyRead
    /\ ~chat.effects.validated
    /\ ~chat.effects.agentCall
    /\ ~chat.effects.pricingLookup
    /\ ~chat.effects.usageInsert
    /\ chat.keyId = NoText
    /\ \A rec \in recordings : rec.caller # chat.id

\* The request in hand presents a key that is on the allow-list.
KeyIsStored == \E row \in cloud_api_keys : row.key = PresentedKey(chat.request)

\* C12: a POST whose key is missing or not on the allow-list is answered 401,
\* and a request answered 401 has had no body parsing, no validation, no agent
\* call, no pricing lookup and no usage recording; the steps after the
\* authentication step are only ever entered with a key that is on the list.
C12_AuthFailureHalts ==
    /\ (chat.pc = "responded" /\ chat.request.method = "POST" /\ ~KeyIsStored)
          => chat.response.status = 401
    /\ (chat.pc = "responded" /\ chat.response.status = 401)
          => (HaltedAtAuth /\ chat.response.type = "unauthorized")
    /\ chat.pc \in {"body_read", "upstream", "pricing"} => KeyIsStored

\* A request with a well-formed body and an unknown key was answered 401 after
\* the allow-list lookup.
C12_Witness ==
    /\ chat.pc = "responded"
    /\ chat.response.status = 401
    /\ chat.effects.authLookup
    /\ chat.request.XElizaCloudKey = KeyUnknown
    /\ validateChatRequest(chat.request.body).outcome = "valid"

-----------------------------------------------------------------------------
(* C13 *)

\* The validation rule as the specification words it, in its reading most
\* favourable to the code: a field that is present but empty counts as lacking.
HasRoleAndContent(element) ==
    /\ element.t = "object"
    /\ "role" \in DOMAIN element.fields
    /\ "content" \in DOMAIN element.fields
    /\ Truthy(element.fields["role"])
    /\ Truthy(element.fields["content"])

MeetsValidationRule(body) ==
    /\ body.t = "object"
    /\ "model" \in DOMAIN body.fields
    /\ body.fields["model"].t = "string"
    /\ body.fields["model"].s # ""
    /\ "messages" \in DOMAIN body.fields
    /\ body.fields["messages"].t = "array"
    /\ Len(body.fields["messages"].items) > 0
    /\ \A i \in 1..Len(body.fields["messages"].items) :
          HasRoleAndContent(body.fields["messages"].items[i])

\* C13: an authenticated POST whose JSON body violates the validation rule is
\* answered 400 'bad_request' with no agent call, pricing lookup or usage
\* insert, and a body that meets the rule is accepted.
C13_BodyValidation ==
    (/\ chat.pc = "responded"
     /\ chat.effects.bodyRead
     /\ chat.request.body # Unparsable)
    => IF MeetsValidationRule(chat.request.body)
       THEN chat.effects.agentCall /\ chat.response.status # 400
       ELSE /\ chat.response.status = 400
            /\ chat.response.type = "bad_request"
            /\ ~chat.effects.agentCall
            /\ ~chat.effects.pricingLookup
            /\ ~chat.effects.usageInsert

-----------------------------------------------------------------------------
(* C14 *)

\* C14: when the upstream chat backend fails for an authenticated, valid
\* request, the request ends with an error response, 502 when the upstream
\* answered a non-2xx status and 503 when it could not be reached, and no usage
\* event is recorded for the request.
C14_UpstreamFailureIsTerminal ==
    (chat.pc = "responded" /\ chat.upstream \in {"non2xx", "unreachable"})
    => /\ chat.response.status = (IF chat.upstream = "non2xx" THEN 502 ELSE 503)
       /\ ~chat.effects.usageInsert
       /\ \A rec \in recordings : rec.caller # chat.id

-----------------------------------------------------------------------------
(* C15 *)

\* The request in hand has been answered 200 with the chat body and the three
\* fee headers of its fee calculation.
AnsweredWithFeeHeaders ==
    /\ chat.pc = "responded"
    /\ chat.response.status = 200
    /\ chat.response.body = "chat.completion"
    /\ chat.response.headers = FeeHeaders(chat.feeCalculation)
    /\ \A h \in DOMAIN chat.response.headers : chat.response.headers[h] # NullText

\* C15 (state part): as soon as the usage recording of a request exists,
\* whether its insert is still pending, has succeeded or has failed, the
\* request has its 200 response with the chat body and all three fee headers;
\* and every 200 response has had its recording scheduled.
C15_AnsweredWhateverTheRecording ==
    /\ \A rec \in recordings : rec.caller = chat.id => AnsweredWithFeeHeaders
    /\ (chat.pc = "responded" /\ chat.response.status = 200)
          => \E rec \in recordings : rec.caller = chat.id

\* C15 (step part): the completion of a usage insert, successful or failed,
\* leaves the response of the request untouched.
C15_InsertLeavesResponse ==
    [][(usage_events' # usage_events \/ recordings' # recordings)
          /\ chat.pc = "responded" /\ chat'.id = chat.id
       => chat'.response = chat.response /\ chat'.pc = "responded"]_vars

\* C15: on a successful request the response never waits on and is never
\* failed by usage recording.
C15_ResponseIndependentOfRecording ==
    []C15_AnsweredWhateverTheRecording /\ C15_InsertLeavesResponse

\* The request was answered 200 with fee headers and its usage insert failed
\* afterwards.
C15_Witness ==
    /\ AnsweredWithFeeHeaders
    /\ \E rec \in recordings :
          rec.caller = chat.id /\ rec.state = "fulfilled" /\ ~rec.inserted

-----------------------------------------------------------------------------
(* C16 *)

\* The row carries the requestId as id and as request_id, and the other
\* arguments unchanged.
CopiesArguments(row, args) ==
    /\ row.id = args.requestId
    /\ row.request_id = args.requestId
    /\ row.cloud_key_id = args.keyId
    /\ row.session_id = args.sessionId
    /\ row.model = args.model
    /\ row.prompt_tokens = args.promptTokens
    /\ row.completion_tokens = args.completionTokens
    /\ row.base_cost_usd = args.feeCalculation.base_cost_usd
    /\ row.platform_fee_usd = args.feeCalculation.platform_fee_usd
    /\ row.total_cost_usd = args.feeCalculation.total_cost_usd

\* The invocation of recordUsage completes in this step.
RecordUsageCompletes(rec) ==
    /\ rec \in recordings
    /\ rec.op = "recordUsage"
    /\ rec.state = "pending"
    /\ rec \notin recordings'

\* The invocation that completes in this step had its INSERT carried out.
InsertSucceeded(rec) ==
    \E done \in recordings' : done.caller = rec.caller /\ done.op = rec.op /\ done.inserted

\* C16 as stated: each invocation of recordUsage produces exactly one row in
\* usage_events, with id and request_id equal to the requestId and the other
\* arguments copied unchanged.
C16_ExactlyOneRowPerInvocation ==
    [][\A rec \in recordings :
          RecordUsageCompletes(rec)
          => \E row \in usage_events' :
                /\ usage_events' \ usage_events = {row}
                /\ CopiesArguments(row, rec.args)]_vars

\* C16 amended: each invocation of recordUsage produces at most one row; when
\* its INSERT is carried out it produces exactly one, with id and request_id
\* equal to the requestId and the other arguments copied unchanged; when the
\* INSERT fails (storage error, or a row with that id exists) it produces none.
C16_OneRowWhenInsertSucceeds ==
    [][\A rec \in recordings :
          RecordUsageCompletes(rec)
          => IF InsertSucceeded(rec)
             THEN \E row \in usage_events' :
                     /\ usage_events' \ usage_events = {row}
                     /\ CopiesArguments(row, rec.args)
             ELSE usage_events' = usage_events]_vars

\* Two invocations have completed with the same requestId: the first stored
\* its row, the second stored none.
C16_Witness ==
    \E first \in recordings, second \in recordings :
        /\ first.op = "recordUsage" /\ second.op = "recordUsage"
        /\ first.caller # second.caller
        /\ first.args.requestId = second.args.requestId
        /\ first.state = "fulfilled" /\ first.inserted
        /\ second.state = "fulfilled" /\ ~second.inserted
        /\ \E row \in usage_events : CopiesArguments(row, first.args)
        /\ Cardinality({row \in usage_events : row.id = first.args.requestId}) = 1

-----------------------------------------------------------------------------
(* C17 *)

\* C17: a storage failure during a usage-event insert is never propagated to
\* the caller of the recording operation: every completed recording
\* operation, recordUsage or trackMessageProcessing, completed normally.
C17_FailureNeverPropagates ==
    \A rec \in recordings : rec.state # "pending" => rec.state = "fulfilled"

-----------------------------------------------------------------------------
(* C18 *)

\* Every step keeps the rows of usage_events as they are, and adds at most
\* the one row of a recording operation whose INSERT completes in that step.
LedgerStep ==
    /\ usage_events \subseteq usage_events'
    /\ usage_events' # usage_events
          => \E rec \in recordings :
                /\ rec.state = "pending"
                /\ rec \notin recordings'
                /\ usage_events' = usage_events \cup {rec.event}

\* At most one usage event is created per processed request, and every row
\* was inserted by a recording operation.
OneEventPerRequest ==
    /\ \A rec \in recordings, other \in recordings :
          rec.caller = other.caller => rec = other
    /\ \A row \in usage_events :
          \E rec \in recordings : rec.inserted /\ rec.event = row
    /\ Cardinality(usage_events) <= Cardinality({rec \in recordings : rec.inserted})

\* C18: the usage ledger is append-only: a row once inserted is never updated
\* or deleted, at most one usage event is created per processed request, and
\* only inserts write to usage_events.
C18_LedgerAppendOnly == [][LedgerStep]_vars /\ []OneEventPerRequest

\* Two requests were processed with the same upstream id: the row of the first
\* is stored, the insert of the second was refused and left that row as it was.
C18_Witness ==
    \E first \in recordings, second \in recordings :
        /\ first.caller = "r1" /\ second.caller = "r2"
        /\ first.inserted /\ second.state = "fulfilled" /\ ~second.inserted
        /\ first.event.id = second.event.id
        /\ first.event # second.event
        /\ usage_events = {first.event}

-----------------------------------------------------------------------------
(* C19 *)

\* The 'session' query parameter is absent from the request URL.
SessionAbsent(request) == request.session = NullText

\* C19: for a request that was processed, without a 'session' query parameter
\* the session id of the agent call and the session_id of the usage event is
\* the fixed sentinel, never null; with the parameter (a non-empty value) it
\* is the parameter's value.
C19_SessionDefault ==
    \A rec \in recordings :
        (rec.caller = chat.id /\ chat.request.session # <<>>)
        => LET expected == IF SessionAbsent(chat.request) THEN DefaultSession
                           ELSE chat.request.session
           IN  /\ chat.sessionId = expected
               /\ rec.event.session_id = expected
               /\ chat.sessionId # NullText

-----------------------------------------------------------------------------
(* C20 *)

\* C20: the first failing check of method, credential, body decides the
\* response: a request that is neither POST nor OPTIONS is answered 405
\* whatever its credentials and body, with no credential lookup; a POST with a
\* missing or invalid credential is answered 401 whatever its body; 400 is
\* returned only to authenticated POST requests.
C20_FirstFailingCheckDecides ==
    chat.pc = "responded"
    => /\ chat.request.method \notin {"POST", "OPTIONS"}
             => /\ chat.response.status = 405
                /\ chat.response.type = "method_not_allowed"
                /\ chat.effects = NoEffects
       /\ (chat.request.method = "POST" /\ ~KeyIsStored)
             => chat.response.status = 401 /\ ~chat.effects.bodyRead
       /\ chat.response.status = 400
             => /\ chat.request.method = "POST"
                /\ KeyIsStored
                /\ chat.effects.authLookup
                /\ chat.keyId # NoText

\* A GET with a stored key and a well-formed body was answered 405, and the
\* key was never looked up.
C20_Witness ==
    /\ chat.pc = "responded"
    /\ chat.request.method = "GET"
    /\ KeyIsStored
    /\ validateChatRequest(chat.request.body).outcome = "valid"
    /\ chat.response.status = 405
    /\ ~chat.effects.authLookup

-----------------------------------------------------------------------------
(* C21 *)

\* The name of an error status, lower-cased with underscores for spaces.
StatusType(status) ==
    CASE status = 400 -> "bad_request"
      [] status = 401 -> "unauthorized"
      [] status = 405 -> "method_not_allowed"
      [] status = 500 -> "internal_server_error"
      [] status = 502 -> "bad_gateway"
      [] status = 503 -> "service_unavailable"
      [] OTHER -> "none"

\* The status as decimal text.
StatusCode(status) ==
    CASE status = 400 -> <<"4", "0", "0">>
      [] status = 401 -> <<"4", "0", "1">>
      [] status = 405 -> <<"4", "0", "5">>
      [] status = 500 -> <<"5", "0", "0">>
      [] status = 502 -> <<"5", "0", "2">>
      [] status = 503 -> <<"5", "0", "3">>
      [] OTHER -> NullText

\* C21: every error response for /agent/chat has one of the statuses 405,
\* 401, 400, 502, 503, 500, a body {error: {message, type, code}} whose code
\* is the status as a string and whose type is the status name in lower case
\* with underscores, and the Access-Control-Allow-Origin header.
C21_ErrorResponseShape ==
    (chat.pc = "responded" /\ chat.response.status \notin {200, 204})
    => /\ chat.response.status \in {400, 401, 405, 500, 502, 503}
       /\ chat.response.body = "error"
       /\ chat.response.message # "none"
       /\ chat.response.type = StatusType(chat.response.status)
       /\ chat.response.code = StatusCode(chat.response.status)
       /\ chat.response.allowOrigin = "*"

\* A request was refused for its body with a 400 whose error object has the
\* type 'bad_request' and the code '400'.
C21_Witness ==
    /\ chat.pc = "responded"
    /\ chat.response.status = 400
    /\ chat.response.type = "bad_request"
    /\ chat.response.code = <<"4", "0", "0">>
    /\ chat.response.message = "Messages must be a non-empty array"

-----------------------------------------------------------------------------
(* C22 *)

\* The failures of the credential store, the pricing stores, the usage store
\* and the request body are each turned into their defined outcome.
StoreAndBodyFailuresConverted ==
    /\ chat.response.status \in {200, 204, 400, 401, 405, 500, 502, 503}
    /\ chat.response.message = "Authentication failed" => chat.response.status = 401
    /\ (chat.effects.bodyRead /\ chat.request.body = Unparsable)
          => chat.response.status = 400
    /\ (chat.effects.bodyRead /\ chat.request.body # Unparsable
           /\ ~MeetsValidationRule(chat.request.body))
          => chat.response.status \in {400, 500}
    /\ chat.pricingFailure # "none"
          => chat.response.status = 200 /\ chat.feeCalculation = ZeroFee
    /\ \A rec \in recordings :
          (rec.caller = chat.id /\ rec.state # "pending" /\ ~rec.inserted)
          => /\ rec.state = "fulfilled"
             /\ chat.response.status = 200
             /\ \A row \in usage_events : row = rec.event => \E other \in recordings :
                   other # rec /\ other.inserted /\ other.event = row

\* A failure of the upstream chat API is turned into 502 or 503.
UpstreamFailureConverted ==
    chat.upstream \in {"non2xx", "unreachable"} => chat.response.status \in {502, 503}

\* C22: handleAgentChat always completes with a Response, and every failure
\* of an external call (credential store, override store, bulk pricing
\* source, upstream chat API, usage store) and every request body is turned
\* into one of the outcomes 401, 400, 502, 503, 500, zero fee or a dropped
\* usage event.
C22_EveryFailureConverted ==
    chat.pc = "responded" => (StoreAndBodyFailuresConverted /\ UpstreamFailureConverted)

-----------------------------------------------------------------------------
(* C23 *)

\* The usage recording of the request in hand, if it has been scheduled.
RecordingsOfRequest == {rec \in recordings : rec.caller = chat.id}

\* C23: within one request the agent response is obtained, then the fee is
\* computed, then the usage recording is scheduled, then the response is
\* returned: before the agent response exists there is no fee and no
\* recording; a recording carries the fee computed from that agent response;
\* a request that did not reach the fee computation has no recording; and a
\* 200 response is only returned with the recording scheduled.
C23_RequestOrder ==
    /\ chat.pc \in {"idle", "auth_lookup", "body_read", "upstream"}
          => /\ chat.agentResponse = NoAgentResponse
             /\ chat.feeCalculation = ZeroFee
             /\ RecordingsOfRequest = {}
    /\ chat.pc = "pricing"
          => /\ chat.agentResponse # NoAgentResponse
             /\ RecordingsOfRequest = {}
             /\ chat.response = NoResponse
    /\ \A rec \in RecordingsOfRequest :
          /\ chat.agentResponse # NoAgentResponse
          /\ chat.effects.pricingLookup
          /\ rec.args.feeCalculation = chat.feeCalculation
          /\ rec.args.model = chat.agentResponse.model
          /\ rec.args.promptTokens = chat.agentResponse.prompt_tokens
          /\ rec.args.completionTokens = chat.agentResponse.completion_tokens
          /\ chat.pc = "responded"
    /\ (chat.pc = "responded" /\ chat.response.status # 200) => RecordingsOfRequest = {}
    /\ (chat.pc = "responded" /\ chat.response.status = 200) => RecordingsOfRequest # {}

\* A request was answered 200 with a fee that is not zero, computed from the
\* upstream's token counts, and its recording carries that fee.
C23_Witness ==
    /\ chat.pc = "responded"
    /\ chat.response.status = 200
    /\ chat.upstream = "ok"
    /\ chat.feeCalculation # ZeroFee
    /\ \E rec \in RecordingsOfRequest : rec.args.feeCalculation = chat.feeCalculation

-----------------------------------------------------------------------------
(* C24 *)

\* The requestId of the invocation is the id of a stored row.
RequestIdStored(rec) == \E row \in usage_events : row.id = rec.args.requestId

\* A recordUsage invocation whose requestId is stored already leaves the
\* ledger as it is and completes normally, with nothing inserted.
DuplicateRejected ==
    \A rec \in recordings :
        (RecordUsageCompletes(rec) /\ RequestIdStored(rec))
        => /\ usage_events' = usage_events
           /\ \E done \in recordings' :
                 /\ done.caller = rec.caller
                 /\ done.state = "fulfilled"
                 /\ ~done.inserted

\* No two rows of the ledger have the same id.
UniqueIds == \A row \in usage_events, other \in usage_events : row.id = other.id => row = other

\* C24: when recordUsage is called with a requestId that is already the id of
\* a row, the insert is rejected, the ledger and the existing row are left
\* unchanged and recordUsage completes normally; the ledger never holds two
\* rows with the same id.
C24_DuplicateIdRejected == [][DuplicateRejected]_vars /\ []UniqueIds

\* A second invocation with a stored requestId and other field values has
\* completed normally, and the ledger still holds the first row only.
C24_Witness ==
    \E first \in recordings, second \in recordings :
        /\ first.op = "recordUsage" /\ second.op = "recordUsage"
        /\ first.inserted
        /\ second.state = "fulfilled" /\ ~second.inserted
        /\ second.args.requestId = first.args.requestId
        /\ second.args.sessionId # first.args.sessionId
        /\ second.args.feeCalculation # first.args.feeCalculation
        /\ usage_events = {first.event}

-----------------------------------------------------------------------------
(* C25 *)

\* The fee headers of the response read back as the three values of the fee
\* calculation, and the request id header is the id of the usage event.
HeadersMatchRecording(rec) ==
    /\ \A h \in DOMAIN chat.response.headers : chat.response.headers[h] # NullText
    /\ parseFloat(chat.response.headers[BaseCostHeader]) = rec.args.feeCalculation.base_cost_usd
    /\ parseFloat(chat.response.headers[FeeHeader]) = rec.args.feeCalculation.platform_fee_usd
    /\ parseFloat(chat.response.headers[TotalHeader]) = rec.args.feeCalculation.total_cost_usd
    /\ chat.response.requestId = rec.event.id
    /\ chat.response.requestId = rec.args.requestId

-----------------------------------------------------------------------------
(* C26 *)

\* An earlier request of this process has loaded the bulk pricing table and
\* the time to live of that load has not run out.
LoadedWithinTtl == lastLoad # NoLoad /\ now < lastLoad + CACHE_TTL_MS

\* C26: once a request has loaded the bulk pricing table, a later request of
\* the same process within the time to live resolves its pricing without a
\* fetch from the external store.
C26_CacheSharedAcrossRequests ==
    [][(chat.pc = "pricing" /\ chat'.pc = "responded" /\ LoadedWithinTtl)
          => ~chat'.effects.kvFetch]_vars

-----------------------------------------------------------------------------
(* C27 *)

\* The cache is absent, or it is one complete table of the store with an
\* expiry set; and what a resolution got from getDefaultPricing is one
\* complete table of the store or the empty table.
CacheIsOneFetch ==
    /\ \/ pricingCache = Null /\ cacheExpiry = 0
       \/ pricingCache \in BulkTables /\ cacheExpiry > 0
    /\ \A i \in CallIds : calls[i].bulk \in BulkTables \cup {EmptyTable}

\* The cache and its expiry are only written together, by a resolution that
\* was awaiting its fetch, with the whole table that fetch delivered.
CacheWrittenWhole ==
    (pricingCache' # pricingCache \/ cacheExpiry' # cacheExpiry)
    => /\ PRICING_V1.kind = "json"
       /\ pricingCache' = PRICING_V1.value
       /\ \E i \in CallIds :
             /\ calls[i].pc = "kv_get"
             /\ calls'[i].pc = "done"
             /\ calls'[i].bulk = pricingCache'
             /\ cacheExpiry' = calls[i].now + CACHE_TTL_MS

\* C27: for any interleaving of concurrent bulk resolutions on one
\* PricingService, the cached table is absent or exactly the complete table
\* of one fetch, the expiry is written in the same step, and no resolution
\* returns a mixture of two fetches.
C27_WholeTableReplacement == []CacheIsOneFetch /\ [][CacheWrittenWhole]_vars

\* One resolution has loaded and cached a table while another, started on the
\* empty cache, still awaits its own fetch of a store that now holds a
\* different table.
C27_Witness ==
    \E i \in CallIds, j \in CallIds :
        /\ calls[i].pc = "done" /\ calls[i].path = "miss"
        /\ calls[i].bulk \in BulkTables
        /\ pricingCache = calls[i].bulk
        /\ calls[j].pc = "kv_get"
        /\ PRICING_V1.kind = "json"
        /\ PRICING_V1.value # pricingCache

-----------------------------------------------------------------------------
(* C28 *)

\* Math.ceil(length / 4), as the least n with 4n >= length.
EstimatedPromptTokens(length) == CHOOSE n \in 0..length : 4 * n >= length /\ 4 * (n - 1) < length

\* The reply processMessage gave for the failed upstream call is the fallback:
\* an id no other reply or usage event has, the model 'eliza-sandbox-agent',
\* the estimated token counts, and no message remembered for the session.
FallbackReply ==
    /\ chat.agentResponse.error
    /\ chat.agentResponse.id \notin UpstreamIds
    /\ \A rec \in recordings : rec.caller # chat.id => rec.event.id # chat.agentResponse.id
    /\ chat.agentResponse.model = "eliza-sandbox-agent"
    /\ chat.agentResponse.prompt_tokens =
          EstimatedPromptTokens(Len(UserMessage(chat.request.body)))
    /\ chat.agentResponse.completion_tokens = 20
    /\ chat.memories.items = <<>>

\* The handler answered the fallback reply with 200 and the fee headers and
\* scheduled the usage insert for it.
FallbackAnswered ==
    /\ chat.response.status = 200
    /\ chat.response.headers = FeeHeaders(chat.feeCalculation)
    /\ \A h \in DOMAIN chat.response.headers : chat.response.headers[h] # NullText
    /\ \E rec \in RecordingsOfRequest :
          /\ rec.args.requestId = chat.agentResponse.id
          /\ rec.args.model = "eliza-sandbox-agent"
          /\ rec.args.promptTokens = chat.agentResponse.prompt_tokens
          /\ rec.args.completionTokens = 20

-----------------------------------------------------------------------------
(* C29 *)

\* The resolution leaves getDefaultPricing in this step, having awaited its
\* fetch.
FetchSettles(i) == calls[i].pc = "kv_get" /\ calls'[i].pc = "done"

\* A fetch that delivers no table (the store has no value or unparsable text,
\* or the fetch throws) ends with the empty table returned and the cache and
\* its expiry as they were; the only other way a fetch ends is with the
\* store's table returned.
FailedRefreshWritesNothing ==
    \A i \in CallIds :
        FetchSettles(i)
        => /\ PRICING_V1.kind # "json" => calls'[i].bulk = EmptyTable
           /\ calls'[i].bulk = EmptyTable
                 => pricingCache' = pricingCache /\ cacheExpiry' = cacheExpiry
           /\ calls'[i].bulk # EmptyTable => calls'[i].bulk = PRICING_V1.value

\* A resolution that needs the bulk table while the cache is absent or
\* expired goes on to fetch.
InvalidCacheFetches ==
    \A i \in CallIds :
        (/\ calls[i].pc = "override_query"
         /\ calls'[i].pc # "override_query"
         /\ calls'[i].path \notin {"threw", "override"}
         /\ (pricingCache = Null \/ now >= cacheExpiry))
        => calls'[i].pc = "kv_get"

\* C29: a bulk pricing refresh that fails leaves pricingCache and cacheExpiry
\* unchanged and returns the empty table, so the failure is not cached and
\* the next resolution on the instance fetches again.
C29_FailedRefreshNotCached == [][FailedRefreshWritesNothing /\ InvalidCacheFetches]_vars

\* A refresh of an expired cache has failed: it returned the empty table, the
\* expired table and its expiry are still there, and another resolution is
\* fetching.
C29_Witness ==
    \E i \in CallIds, j \in CallIds :
        /\ calls[i].pc = "done" /\ calls[i].path = "miss"
        /\ calls[i].bulk = EmptyTable
        /\ pricingCache \in BulkTables
        /\ now >= cacheExpiry
        /\ calls[j].pc = "kv_get"

-----------------------------------------------------------------------------
(* C30 *)

\* C30: when Authorization carries a Bearer key that is not on the
\* allow-list, validateApiKey asks the store once, for that key, and never
\* succeeds, whatever X-Eliza-Cloud-Key holds: it fails with 'Invalid API
\* key' when the lookup answers.
C30_NoFallbackToOtherHeader ==
    \A k \in PresentableKeys :
        (/\ authCall.pc \in {"lookup", "done"}
         /\ authCall.request.Authorization = Bearer \o k
         /\ \A row \in cloud_api_keys : row.key # k)
        => /\ authCall.queried = <<k>>
           /\ authCall.pc = "done"
                 => /\ ~authCall.result.success
                    /\ ~authCall.threw => authCall.result = AuthFailure("Invalid API key")

\* An unknown Bearer key came with a stored key in X-Eliza-Cloud-Key: the
\* store was asked once, for the Bearer key, and the request was refused.
C30_Witness ==
    /\ authCall.pc = "done"
    /\ authCall.request.Authorization = Bearer \o KeyUnknown
    /\ authCall.request.XElizaCloudKey = Key2
    /\ \E row \in cloud_api_keys : row.key = Key2
    /\ authCall.queried = <<KeyUnknown>>
    /\ authCall.result = AuthFailure("Invalid API key")

====
